---- MODULE Spec2Model ----
(***************************************************************************)
(* Viona AI agent server: the mutating-action workflow (ActionTool), the   *)
(* per-organisation token ledger (TokenLimiter) and the router turn        *)
(* (classify -> allocate_budget -> handler) driven by the chat socket.     *)
(***************************************************************************)
EXTENDS Integers, Sequences, FiniteSets, TLC

VARIABLES db, nwrites, last, used, limit, used0, requested, calls, conn, hist, mem, events

vars == <<db, nwrites, last, used, limit, used0, requested, calls, conn, hist, mem, events>>

ledgerVars == <<used, limit, used0, requested>>

turnVars == <<conn, hist, mem, events>>

(***************************************************************************)
(* Python values that reach an action tool as keyword arguments.           *)
(***************************************************************************)
ABSENT == <<"absent">>

NONE == <<"none">>

I(n) == <<"int", n>>

S(s) == <<"str", s>>

IsInt(v) == v[1] = "int"

IsStr(v) == v[1] = "str"

(***************************************************************************)
(* Bounds of the model.                                                    *)
(***************************************************************************)
MaxWrites == 1

MaxQty == 2

MaxOps == 7

Orgs == {1, 2}

Roles == {"admin", "manager", "analyst", "user"}

(***************************************************************************)
(* Names are character sequences, so that LOWER() and ILIKE '%x%' are      *)
(* computed rather than assumed.  The name is put between the two % as it  *)
(* is, so a "_" in it is the ILIKE wildcard for any one character.         *)
(***************************************************************************)
Lower(c) ==
  IF c = "A" THEN "a" ELSE IF c = "B" THEN "b" ELSE IF c = "Y" THEN "y"
  ELSE IF c = "O" THEN "o" ELSE c

LowerStr(s) == [i \in 1..Len(s) |-> Lower(s[i])]

ILike(hay, needle) ==
  \E i \in 1..(Len(hay) + 1) :
     /\ i + Len(needle) - 1 <= Len(hay)
     /\ \A j \in 1..Len(needle) :
          needle[j] = "_" \/ Lower(hay[i + j - 1]) = Lower(needle[j])

(***************************************************************************)
(* The data store.  Every table is a set of rows.                          *)
(***************************************************************************)
InitDb ==
  [product   |-> {[pid |-> 1, org |-> 1, name |-> <<"a", "b">>, sku |-> "S1"],
                  [pid |-> 2, org |-> 1, name |-> <<"A">>, sku |-> "S2"],
                  [pid |-> 3, org |-> 2, name |-> <<"a", "b">>, sku |-> "S1"]},
   warehouse |-> {[wid |-> 1, org |-> 1, name |-> <<"a">>],
                  [wid |-> 2, org |-> 1, name |-> <<"b">>],
                  [wid |-> 3, org |-> 2, name |-> <<"a">>]},
   stock     |-> {[pid |-> 1, wid |-> 1, quantity |-> 1]},
   order     |-> {[oid |-> 1, org |-> 1, status |-> "pending"],
                  [oid |-> 2, org |-> 2, status |-> "shipped"]},
   orderItem |-> {},
   reorder   |-> {},
   price     |-> {[pid |-> 3, actual |-> 1]}]

NextId(ids) == IF ids = {} THEN 1 ELSE (CHOOSE m \in ids : \A j \in ids : j <= m) + 1

(***************************************************************************)
(* ActionStatus and ActionResult (tools/base.py).  Optional Python values  *)
(* are sequences of length at most one; error is "None" when unset.  The   *)
(* pseudo-status RAISED stands for an exception leaving preview/confirm.   *)
(***************************************************************************)
MISSING_DATA == "missing_data"

PENDING_CONFIRMATION == "pending"

CONFIRMED == "confirmed"

EXECUTED == "executed"

CANCELLED == "cancelled"

RAISED == "raised"

ActionResult(st, ok, err, d) ==
  [status |-> st, success |-> ok, error |-> err,
   missing_fields |-> <<>>, prompt_message |-> FALSE,
   preview_data |-> <<>>, confirmation_message |-> FALSE,
   result_message |-> FALSE, created_id |-> <<>>, suggestions |-> {}, db |-> d]

Cancel_Success(err, d) == ActionResult(CANCELLED, TRUE, err, d)

Cancel(err, d) == ActionResult(CANCELLED, FALSE, err, d)

Raise(err, d) == ActionResult(RAISED, FALSE, err, d)

Pending(pv, d) ==
  [ActionResult(PENDING_CONFIRMATION, TRUE, "None", d)
     EXCEPT !.preview_data = <<pv>>, !.confirmation_message = TRUE]

Executed_NoId(cid, d) ==
  [ActionResult(EXECUTED, TRUE, "None", d) EXCEPT !.result_message = TRUE]

Executed(cid, d) ==
  [ActionResult(EXECUTED, TRUE, "None", d)
     EXCEPT !.result_message = TRUE, !.created_id = cid]

(***************************************************************************)
(* query_one over Product / Warehouse by name: exact match on LOWER(name)  *)
(* first, then ILIKE '%name%' ORDER BY LENGTH(name) LIMIT 1.  k is the     *)
(* index of the first data-store operation of the lookup, f the index of   *)
(* the operation that fails in this call (0: none).  The result is the set *)
(* of answers the data store may give (row order is not fixed by the SQL). *)
(***************************************************************************)
LookupByName(rows, org, name, k, f) ==
  LET exact    == {r \in rows : r.org = org /\ LowerStr(r.name) = LowerStr(name)}
      fuzzy    == {r \in rows : r.org = org /\ ILike(r.name, name)}
      shortest == {r \in fuzzy : \A q \in fuzzy : Len(r.name) <= Len(q.name)}
  IN  IF f = k THEN {[raise |-> TRUE, row |-> <<>>, n |-> 1]}
      ELSE IF exact # {} THEN {[raise |-> FALSE, row |-> <<r>>, n |-> 1] : r \in exact}
      ELSE IF f = k + 1 THEN {[raise |-> TRUE, row |-> <<>>, n |-> 2]}
      ELSE IF shortest = {} THEN {[raise |-> FALSE, row |-> <<>>, n |-> 2]}
      ELSE {[raise |-> FALSE, row |-> <<r>>, n |-> 2] : r \in shortest}

(***************************************************************************)
(* SELECT name ... WHERE org_id ORDER BY name LIMIT 5, of which the error  *)
(* text lists suggestion_names[:3].  The order of the names is that of the *)
(* collation of the data store, so any three of the names may come first.  *)
(***************************************************************************)
Suggestions(rows, org) ==
  LET names == {r.name : r \in {x \in rows : x.org = org}}
  IN  {sg \in SUBSET names :
         Cardinality(sg) = (IF Cardinality(names) < 3 THEN Cardinality(names) ELSE 3)}

StockQty(d, pid, wid) ==
  LET rs == {r \in d.stock : r.pid = pid /\ r.wid = wid}
  IN  IF rs = {} THEN 0 ELSE (CHOOSE r \in rs : TRUE).quantity

(***************************************************************************)
(* CreateReorderRequestTool (tools/actions/tools.py).                      *)
(***************************************************************************)
ReorderPreview(org, p, d, f) ==
  IF p["extra"] # ABSENT THEN {Raise("TypeError", d)}
  ELSE IF ~IsStr(p["product_name"]) THEN {Raise("DataError", d)}
  ELSE UNION {
    IF lp.raise THEN {Raise("db", d)}
    ELSE IF lp.row = <<>> THEN
      (IF f = lp.n + 1 THEN {Raise("db", d)}
       ELSE {[Cancel("Product not found", d) EXCEPT !.suggestions = sg]
             : sg \in Suggestions(d.product, org)})
    ELSE IF ~IsStr(p["warehouse_name"]) THEN {Raise("DataError", d)}
    ELSE UNION {
      IF lw.raise THEN {Raise("db", d)}
      ELSE IF lw.row = <<>> THEN
        (IF f = lp.n + lw.n + 1 THEN {Raise("db", d)} ELSE {Cancel("Warehouse not found", d)})
      ELSE IF f = lp.n + lw.n + 1 THEN {Raise("db", d)}
      ELSE {Pending([product_id |-> lp.row[1].pid, warehouse_id |-> lw.row[1].wid,
                     current_stock |-> StockQty(d, lp.row[1].pid, lw.row[1].wid),
                     quantity_to_order |-> p["quantity"]], d)}
      : lw \in LookupByName(d.warehouse, org, p["warehouse_name"][2], lp.n + 1, f)}
    : lp \in LookupByName(d.product, org, p["product_name"][2], 1, f)}

ReorderConfirm(org, p, d, f) ==
  IF p["extra"] # ABSENT THEN {Raise("TypeError", d)}
  ELSE IF ~IsStr(p["product_name"]) THEN {Raise("DataError", d)}
  ELSE UNION {
    IF lp.raise THEN {Raise("db", d)}
    ELSE IF ~IsStr(p["warehouse_name"]) THEN {Raise("DataError", d)}
    ELSE UNION {
      IF lw.raise THEN {Raise("db", d)}
      ELSE IF lp.row = <<>> \/ lw.row = <<>> THEN {Cancel("Product or warehouse not found", d)}
      ELSE IF f = lp.n + lw.n + 1 THEN
        {Raise("db", d), Cancel("Reorder request functionality requires database migration", d)}
      ELSE IF ~IsInt(p["quantity"]) THEN {Raise("DataError", d)}
      ELSE LET rid == NextId({r.rid : r \in d.reorder})
           IN {Executed(<<rid>>,
                 [d EXCEPT !.reorder = @ \cup
                    {[rid |-> rid, org |-> org, pid |-> lp.row[1].pid,
                      wid |-> lw.row[1].wid, quantity |-> p["quantity"][2]]}])}
      : lw \in LookupByName(d.warehouse, org, p["warehouse_name"][2], lp.n + 1, f)}
    : lp \in LookupByName(d.product, org, p["product_name"][2], 1, f)}

(***************************************************************************)
(* UpdateOrderStatusTool (tools/actions/tools.py).  str.lower() on the     *)
(* status words of the model.                                              *)
(***************************************************************************)
LowerWord(w) == IF w = "SHIPPED" THEN "shipped" ELSE w

VALID_STATUSES == {"pending", "processing", "shipped", "delivered", "cancelled"}

OrderRows(d, org, oid) == {r \in d.order : r.oid = oid /\ r.org = org}

StatusPreview_Applies(org, p, d, f) ==
  IF p["extra"] # ABSENT THEN {Raise("TypeError", d)}
  ELSE IF ~IsStr(p["new_status"]) THEN {Raise("AttributeError", d)}
  ELSE IF LowerWord(p["new_status"][2]) \notin VALID_STATUSES THEN {Cancel("Invalid status", d)}
  ELSE IF ~IsInt(p["order_id"]) THEN {Raise("DataError", d)}
  ELSE IF f = 1 THEN {Raise("db", d)}
  ELSE IF OrderRows(d, org, p["order_id"][2]) = {} THEN {Cancel("Order not found", d)}
  ELSE LET order == CHOOSE r \in OrderRows(d, org, p["order_id"][2]) : TRUE
       IN  IF order.status = LowerWord(p["new_status"][2])
           THEN {Cancel("Order is already in that status", d)}
           ELSE {Pending([order_id |-> order.oid, current_status |-> order.status,
                          new_status |-> LowerWord(p["new_status"][2])],
                         [d EXCEPT !.order =
                            {IF r = order
                               THEN [r EXCEPT !.status = LowerWord(p["new_status"][2])]
                               ELSE r : r \in @}])}

StatusPreview(org, p, d, f) ==
  IF p["extra"] # ABSENT THEN {Raise("TypeError", d)}
  ELSE IF ~IsStr(p["new_status"]) THEN {Raise("AttributeError", d)}
  ELSE IF LowerWord(p["new_status"][2]) \notin VALID_STATUSES THEN {Cancel("Invalid status", d)}
  ELSE IF ~IsInt(p["order_id"]) THEN {Raise("DataError", d)}
  ELSE IF f = 1 THEN {Raise("db", d)}
  ELSE IF OrderRows(d, org, p["order_id"][2]) = {} THEN {Cancel("Order not found", d)}
  ELSE LET order == CHOOSE r \in OrderRows(d, org, p["order_id"][2]) : TRUE
       IN  IF order.status = LowerWord(p["new_status"][2])
           THEN {Cancel("Order is already in that status", d)}
           ELSE {Pending([order_id |-> order.oid, current_status |-> order.status,
                          new_status |-> LowerWord(p["new_status"][2])], d)}

StatusConfirm(org, p, d, f) ==
  IF p["extra"] # ABSENT THEN {Raise("TypeError", d)}
  ELSE IF ~IsStr(p["new_status"]) THEN {Raise("AttributeError", d)}
  ELSE IF ~IsInt(p["order_id"]) THEN {Raise("DataError", d)}
  ELSE IF f = 1 THEN {Raise("db", d)}
  ELSE {Executed(<<>>,
          [d EXCEPT !.order =
             {IF r.oid = p["order_id"][2] /\ r.org = org
                THEN [r EXCEPT !.status = LowerWord(p["new_status"][2])]
                ELSE r : r \in @}])}

(***************************************************************************)
(* GenerateReportTool (tools/actions/tools.py): confirm only reads.        *)
(***************************************************************************)
VALID_REPORT_TYPES == {"sales", "inventory", "orders"}

VALID_PERIODS == {"day", "week", "month", "quarter"}

ReportPreview(org, p, d, f) ==
  IF p["extra"] # ABSENT THEN {Raise("TypeError", d)}
  ELSE IF ~IsStr(p["report_type"]) THEN {Raise("AttributeError", d)}
  ELSE IF LowerWord(p["report_type"][2]) \notin VALID_REPORT_TYPES
    THEN {Cancel("Invalid report type", d)}
  ELSE IF ~IsStr(p["period"]) THEN {Raise("AttributeError", d)}
  ELSE IF LowerWord(p["period"][2]) \notin VALID_PERIODS THEN {Cancel("Invalid period", d)}
  ELSE IF f = 1 THEN {Raise("db", d)}
  ELSE {Pending([report_type |-> LowerWord(p["report_type"][2]),
                 period |-> LowerWord(p["period"][2])], d)}

ReportConfirm(org, p, d, f) ==
  IF p["extra"] # ABSENT THEN {Raise("TypeError", d)}
  ELSE IF ~IsStr(p["period"]) \/ ~IsStr(p["report_type"]) THEN {Raise("AttributeError", d)}
  ELSE IF f = 1 THEN {Raise("db", d)}
  ELSE {Executed(<<>>, d)}

(***************************************************************************)
(* CreateOrderTool (tools/actions/tools.py).  items is a list of           *)
(* {product_name, quantity} dicts, or a value of another type.             *)
(***************************************************************************)
L(items) == <<"list", items>>

IsList(v) == v[1] = "list"

ParseItems(v) == IF IsList(v) THEN v[2] ELSE <<>>

ParseRaises(v) == IsList(v) /\ \E i \in 1..Len(v[2]) : ~IsInt(v[2][i].quantity)

RECURSIVE LookupItems(_, _, _, _, _, _)
LookupItems(rows, org, items, k, f, stop) ==
  IF items = <<>> THEN {[raise |-> FALSE, missing |-> FALSE, pids |-> <<>>, n |-> 0]}
  ELSE UNION {
    IF l.raise THEN {[raise |-> TRUE, missing |-> FALSE, pids |-> <<>>, n |-> l.n]}
    ELSE IF l.row = <<>> /\ stop
      THEN {[raise |-> FALSE, missing |-> TRUE, pids |-> <<>>, n |-> l.n]}
    ELSE {[raise   |-> rest.raise,
           missing |-> rest.missing \/ l.row = <<>>,
           pids    |-> (IF l.row = <<>> THEN <<>> ELSE <<l.row[1].pid>>) \o rest.pids,
           n       |-> l.n + rest.n]
          : rest \in LookupItems(rows, org, Tail(items), k + l.n, f, stop)}
    : l \in LookupByName(rows, org, Head(items).product_name, k, f)}

CreateOrderPreview(org, p, d, f) ==
  IF p["extra"] # ABSENT THEN {Raise("TypeError", d)}
  ELSE IF ParseRaises(p["items"]) THEN {Raise("ValueError", d)}
  ELSE IF ParseItems(p["items"]) = <<>> THEN {Cancel("No valid items provided", d)}
  ELSE {IF li.raise THEN Raise("db", d)
        ELSE IF li.missing THEN
          (IF f = li.n + 1 THEN Raise("db", d) ELSE Cancel("Product not found", d))
        ELSE Pending([items |-> li.pids, item_count |-> Len(li.pids)], d)
        : li \in LookupItems(d.product, org, ParseItems(p["items"]), 1, f, FALSE)}

RECURSIVE InsertItems(_, _, _, _, _, _)
InsertItems(d, oid, pids, qtys, k, f) ==
  IF pids = <<>> THEN [failed |-> FALSE, db |-> d]
  ELSE IF f = k THEN [failed |-> TRUE, db |-> d]
  ELSE InsertItems([d EXCEPT !.orderItem = @ \cup
                      {[oid |-> oid, line |-> k, pid |-> Head(pids), quantity |-> Head(qtys)]}],
                   oid, Tail(pids), Tail(qtys), k + 1, f)

CreateOrderConfirm(org, p, d, f) ==
  IF p["extra"] # ABSENT THEN {Raise("TypeError", d)}
  ELSE IF ParseRaises(p["items"]) THEN {Raise("ValueError", d)}
  ELSE {IF li.raise THEN Raise("db", d)
        ELSE IF li.missing THEN Cancel("Product not found", d)
        ELSE IF f = li.n + 1 THEN Cancel("Failed to create order", d)
        ELSE LET oid   == NextId({r.oid : r \in d.order})
                 items == ParseItems(p["items"])
                 d1    == [d EXCEPT !.order = @ \cup
                             {[oid |-> oid, org |-> org, status |-> "pending"]}]
                 ins   == InsertItems(d1, oid, li.pids,
                                      [i \in 1..Len(items) |-> items[i].quantity[2]],
                                      li.n + 2, f)
             IN  IF ins.failed THEN Cancel("Failed to create order", ins.db)
                 ELSE Executed(<<oid>>, ins.db)
        : li \in LookupItems(d.product, org, ParseItems(p["items"]), 1, f, TRUE)}

(***************************************************************************)
(* The inventory action tools (tools/inventory/actions.py).  Every         *)
(* execute_write is a transaction of its own; Python truthiness decides    *)
(* the 'if product_id', 'if warehouse_id', 'if name', 'if adjustment'      *)
(* tests.  A keyword that is not passed takes its default (None or False). *)
(***************************************************************************)
Truthy(v) == v \notin {ABSENT, NONE, I(0)}

MissingData(fields, d) ==
  [ActionResult(MISSING_DATA, TRUE, "None", d)
     EXCEPT !.missing_fields = fields, !.prompt_message = TRUE]

ProductsBySku(d, org, sku) == {r \in d.product : r.sku = sku /\ r.org = org}

ProductsById(d, org, pid) == {r \in d.product : r.pid = pid /\ r.org = org}

WarehousesById(d, org, wid) == {r \in d.warehouse : r.wid = wid /\ r.org = org}

PriceOf(d, pid) ==
  LET rs == {r \in d.price : r.pid = pid}
  IN  IF rs = {} THEN <<>> ELSE <<(CHOOSE r \in rs : TRUE).actual>>

StockRows(d, pid, wid) == {r \in d.stock : r.pid = pid /\ r.wid = wid}

AddProductPreview(org, p, d, f) ==
  IF f = 1 THEN {Raise("db", d)}
  ELSE IF ProductsBySku(d, org, p["sku"][2]) # {}
    THEN {Cancel("A product with this SKU already exists", d)}
  ELSE {Pending([name |-> p["name"][2], sku |-> p["sku"][2],
                 actual_price |-> p["actual_price"]], d)}

AddProductConfirm(org, p, d, f) ==
  LET pid == NextId({r.pid : r \in d.product})
      d1  == [d EXCEPT !.product = @ \cup
                {[pid |-> pid, org |-> org, name |-> p["name"][2], sku |-> p["sku"][2]]}]
      d2  == [d1 EXCEPT !.price = @ \cup {[pid |-> pid, actual |-> p["actual_price"][2]]}]
  IN  IF f = 1 THEN {Cancel("Failed to create product", d)}
      ELSE IF p["actual_price"] \in {ABSENT, NONE} THEN {Executed(<<pid>>, d1)}
      ELSE IF f = 2 THEN {Cancel("Failed to create product", d1)}
      ELSE {Executed(<<pid>>, d2)}

UpdateProductPreview(org, p, d, f) ==
  LET rows == IF Truthy(p["product_id"]) THEN ProductsById(d, org, p["product_id"][2])
              ELSE ProductsBySku(d, org, p["sku"][2])
  IN  IF ~Truthy(p["product_id"]) /\ ~Truthy(p["sku"])
        THEN {MissingData(<<"product_id">>, d)}
      ELSE IF f = 1 THEN {Raise("db", d)}
      ELSE IF rows = {} THEN {Cancel("Product not found", d)}
      ELSE {IF ~ \/ (Truthy(p["name"]) /\ p["name"][2] # product.name)
                 \/ (/\ p["actual_price"] \notin {ABSENT, NONE}
                     /\ <<p["actual_price"][2]>> # PriceOf(d, product.pid))
              THEN Cancel("No changes specified", d)
              ELSE Pending([product_id |-> product.pid, name |-> p["name"],
                            actual_price |-> p["actual_price"]], d)
            : product \in rows}

UpdateProductConfirm(org, p, d, f) ==
  LET bySku == ~Truthy(p["product_id"]) /\ Truthy(p["sku"])
      k     == IF bySku THEN 2 ELSE 1
      pids  == IF Truthy(p["product_id"]) THEN {p["product_id"][2]}
               ELSE IF bySku THEN {r.pid : r \in ProductsBySku(d, org, p["sku"][2])}
               ELSE {}
  IN  IF bySku /\ f = 1 THEN {Raise("db", d)}
      ELSE IF pids = {} THEN {Cancel("Product not found", d)}
      ELSE {LET d1 == [d EXCEPT !.product =
                         {IF r.pid = pid /\ r.org = org /\ Truthy(p["name"])
                            THEN [r EXCEPT !.name = p["name"][2]] ELSE r : r \in @}]
                d2 == [d1 EXCEPT !.price =
                         IF PriceOf(d1, pid) # <<>>
                           THEN {IF r.pid = pid THEN [r EXCEPT !.actual = p["actual_price"][2]]
                                 ELSE r : r \in @}
                           ELSE @ \cup {[pid |-> pid, actual |-> p["actual_price"][2]]}]
            IN  IF f = k THEN Cancel("Failed to update product", d)
                ELSE IF p["actual_price"] \in {ABSENT, NONE} THEN Executed(<<>>, d1)
                ELSE IF f \in {k + 1, k + 2} THEN Cancel("Failed to update product", d1)
                ELSE Executed(<<>>, d2)
            : pid \in pids}

NewQuantity(p, current) ==
  IF Truthy(p["adjustment"]) THEN current + p["quantity"][2] ELSE p["quantity"][2]

UpdateStockPreview(org, p, d, f) ==
  LET products   == ProductsBySku(d, org, p["sku"][2])
      warehouses == IF Truthy(p["warehouse_id"])
                    THEN WarehousesById(d, org, p["warehouse_id"][2])
                    ELSE {r \in d.warehouse : r.org = org}
  IN  IF f = 1 THEN {Raise("db", d)}
      ELSE IF products = {} THEN {Cancel("Product with this SKU not found", d)}
      ELSE IF f = 2 THEN {Raise("db", d)}
      ELSE IF warehouses = {} THEN {Cancel("No warehouse found", d)}
      ELSE IF f = 3 THEN {Raise("db", d)}
      ELSE {IF NewQuantity(p, StockQty(d, product.pid, warehouse.wid)) < 0
              THEN Cancel("Cannot set negative stock", d)
              ELSE Pending([product_id |-> product.pid, warehouse_id |-> warehouse.wid,
                            current_quantity |-> StockQty(d, product.pid, warehouse.wid),
                            new_quantity |->
                              NewQuantity(p, StockQty(d, product.pid, warehouse.wid))], d)
            : product \in products, warehouse \in warehouses}

UpdateStockConfirm(org, p, d, f) ==
  LET products == ProductsBySku(d, org, p["sku"][2])
      given    == Truthy(p["warehouse_id"])
      wids     == IF given THEN {p["warehouse_id"][2]}
                  ELSE {r.wid : r \in {w \in d.warehouse : w.org = org}}
      k        == IF given THEN 2 ELSE 3
  IN  IF f = 1 THEN {Raise("db", d)}
      ELSE IF products = {} THEN {Cancel("Product with this SKU not found", d)}
      ELSE IF ~given /\ f = 2 THEN {Raise("db", d)}
      ELSE IF wids = {} THEN {Cancel("No warehouse found", d)}
      ELSE IF f \in {k, k + 1} THEN {Cancel("Failed to update stock", d)}
      ELSE {LET existing == StockRows(d, product.pid, wid)
            IN  Executed(<<>>,
                  [d EXCEPT !.stock =
                     IF existing # {}
                       THEN {IF r \in existing
                               THEN [r EXCEPT !.quantity = NewQuantity(p, r.quantity)]
                               ELSE r : r \in @}
                       ELSE @ \cup {[pid |-> product.pid, wid |-> wid,
                                     quantity |-> p["quantity"][2]]}])
            : product \in products, wid \in wids}

TransferStockPreview(org, p, d, f) ==
  LET products == ProductsBySku(d, org, p["sku"][2])
      from_wh  == WarehousesById(d, org, p["from_warehouse_id"][2])
      to_wh    == WarehousesById(d, org, p["to_warehouse_id"][2])
  IN  IF p["quantity"][2] <= 0 THEN {Cancel("Transfer quantity must be positive", d)}
      ELSE IF p["from_warehouse_id"] = p["to_warehouse_id"]
        THEN {Cancel("Source and destination warehouses must be different", d)}
      ELSE IF f = 1 THEN {Raise("db", d)}
      ELSE IF products = {} THEN {Cancel("Product with this SKU not found", d)}
      ELSE IF f \in {2, 3} THEN {Raise("db", d)}
      ELSE IF from_wh = {} THEN {Cancel("Source warehouse not found", d)}
      ELSE IF to_wh = {} THEN {Cancel("Destination warehouse not found", d)}
      ELSE IF f = 4 THEN {Raise("db", d)}
      ELSE {IF StockQty(d, product.pid, p["from_warehouse_id"][2]) < p["quantity"][2]
              THEN Cancel("Insufficient stock", d)
            ELSE IF f = 5 THEN Raise("db", d)
            ELSE Pending([product_id |-> product.pid, quantity |-> p["quantity"][2],
                          from_stock |-> StockQty(d, product.pid, p["from_warehouse_id"][2]),
                          to_stock |-> StockQty(d, product.pid, p["to_warehouse_id"][2])], d)
            : product \in products}

TransferStockConfirm(org, p, d, f) ==
  LET products == ProductsBySku(d, org, p["sku"][2])
      q        == p["quantity"][2]
      from     == p["from_warehouse_id"][2]
      to       == p["to_warehouse_id"][2]
  IN  IF f = 1 THEN {Raise("db", d)}
      ELSE IF products = {} THEN {Cancel("Product with this SKU not found", d)}
      ELSE IF f \in {2, 3, 4} THEN {Cancel("Failed to transfer stock", d)}
      ELSE {LET d1 == [d EXCEPT !.stock =
                         {IF r.pid = product.pid /\ r.wid = from
                            THEN [r EXCEPT !.quantity = @ - q] ELSE r : r \in @}]
                d2 == [d1 EXCEPT !.stock =
                         IF StockRows(d1, product.pid, to) # {}
                           THEN {IF r.pid = product.pid /\ r.wid = to
                                   THEN [r EXCEPT !.quantity = @ + q] ELSE r : r \in @}
                           ELSE @ \cup {[pid |-> product.pid, wid |-> to, quantity |-> q]}]
            IN  Executed(<<>>, d2)
            : product \in products}

(***************************************************************************)
(* The registry of action tools: required_roles, required_fields and the   *)
(* keyword arguments the model passes (extra: an undeclared keyword).      *)
(***************************************************************************)
ActionTools == {"create_reorder_request", "update_order_status", "generate_report", "create_order"}

InventoryActionTools == {"add_product", "update_product", "update_stock", "transfer_stock"}

PyTrue == <<"bool", TRUE>>

required_roles(t) ==
  IF t = "generate_report" THEN {"admin", "manager", "analyst"} ELSE {"admin", "manager"}

required_fields(t) ==
  CASE t = "create_reorder_request" -> <<"product_name", "warehouse_name", "quantity">>
    [] t = "update_order_status"    -> <<"order_id", "new_status">>
    [] t = "generate_report"        -> <<"report_type", "period">>
    [] t = "create_order"           -> <<"customer_name", "customer_email", "items",
                                         "payment_method", "shipping_address">>
    [] t = "add_product"            -> <<"name", "sku">>
    [] t = "update_product"         -> <<"product_id">>
    [] t = "update_stock"           -> <<"sku", "quantity">>
    [] t = "transfer_stock"         -> <<"sku", "quantity", "from_warehouse_id",
                                         "to_warehouse_id">>

ParamSpace(t) ==
  CASE t = "create_reorder_request" ->
         [product_name   : {ABSENT, I(1), S(<<"a">>), S(<<"b">>), S(<<"z">>)},
          warehouse_name : {NONE, S(<<"a">>), S(<<"z">>)},
          quantity       : {ABSENT, I(1), S(<<"z">>)},
          extra          : {ABSENT, I(1)}]
    [] t = "update_order_status" ->
         [order_id   : {ABSENT, I(1), I(2), S(<<"z">>)},
          new_status : {NONE, I(1), S("pending"), S("SHIPPED"), S("bogus")},
          extra      : {ABSENT, I(1)}]
    [] t = "generate_report" ->
         [report_type : {ABSENT, I(1), S("sales"), S("bogus")},
          period      : {NONE, I(1), S("week"), S("bogus")},
          extra       : {ABSENT, I(1)}]
    [] t = "create_order" ->
         [customer_name    : {ABSENT, S("x")},
          customer_email   : {NONE, S("x")},
          items            : {ABSENT, I(1), L(<<>>),
                              L(<<[product_name |-> <<"a">>, quantity |-> I(1)]>>),
                              L(<<[product_name |-> <<"z">>, quantity |-> I(1)]>>),
                              L(<<[product_name |-> <<"a">>, quantity |-> S("x")]>>),
                              L(<<[product_name |-> <<"a", "b">>, quantity |-> I(1)],
                                  [product_name |-> <<"a">>, quantity |-> I(MaxQty)]>>)},
          payment_method   : {ABSENT, S("x")},
          shipping_address : {NONE, S("x")},
          extra            : {ABSENT}]
    [] t = "add_product" ->
         [name         : {ABSENT, S(<<"c">>)},
          sku          : {NONE, S("S1"), S("S9")},
          actual_price : {ABSENT, I(5)}]
    [] t = "update_product" ->
         [product_id   : {ABSENT, I(0), I(1), I(3)},
          sku          : {ABSENT, S("S1")},
          name         : {ABSENT, S(<<"c">>)},
          actual_price : {ABSENT, I(5)}]
    [] t = "update_stock" ->
         [sku          : {NONE, S("S1"), S("S9")},
          quantity     : {ABSENT, I(-1), I(MaxQty)},
          warehouse_id : {ABSENT, I(2), I(3)},
          adjustment   : {ABSENT, PyTrue}]
    [] t = "transfer_stock" ->
         [sku               : {ABSENT, S("S1")},
          quantity          : {I(0), I(1), I(MaxQty)},
          from_warehouse_id : {NONE, I(1), I(2)},
          to_warehouse_id   : {I(1), I(2), I(3)}]

preview(t, org, p, d, f) ==
  CASE t = "create_reorder_request" -> ReorderPreview(org, p, d, f)
    [] t = "update_order_status"    -> StatusPreview(org, p, d, f)
    [] t = "generate_report"        -> ReportPreview(org, p, d, f)
    [] t = "create_order"           -> CreateOrderPreview(org, p, d, f)
    [] t = "add_product"            -> AddProductPreview(org, p, d, f)
    [] t = "update_product"         -> UpdateProductPreview(org, p, d, f)
    [] t = "update_stock"           -> UpdateStockPreview(org, p, d, f)
    [] t = "transfer_stock"         -> TransferStockPreview(org, p, d, f)

confirm(t, org, p, d, f) ==
  CASE t = "create_reorder_request" -> ReorderConfirm(org, p, d, f)
    [] t = "update_order_status"    -> StatusConfirm(org, p, d, f)
    [] t = "generate_report"        -> ReportConfirm(org, p, d, f)
    [] t = "create_order"           -> CreateOrderConfirm(org, p, d, f)
    [] t = "add_product"            -> AddProductConfirm(org, p, d, f)
    [] t = "update_product"         -> UpdateProductConfirm(org, p, d, f)
    [] t = "update_stock"           -> UpdateStockConfirm(org, p, d, f)
    [] t = "transfer_stock"         -> TransferStockConfirm(org, p, d, f)

(***************************************************************************)
(* BaseTool.check_permission, ActionTool.validate_inputs and               *)
(* ActionTool.run_action (tools/base.py).                                  *)
(***************************************************************************)
check_permission_Open(t, role) ==
  IF required_roles(t) = {} THEN TRUE
  ELSE IF role = "admin" THEN TRUE
  ELSE TRUE

check_permission(t, role) ==
  IF required_roles(t) = {} THEN TRUE
  ELSE IF role = "admin" THEN TRUE
  ELSE role \in required_roles(t)

validate_inputs_AbsentOnly(t, p) ==
  LET Missing(fn) == p[fn] = ABSENT
  IN  SelectSeq(required_fields(t), Missing)

validate_inputs(t, p) ==
  LET Missing(fn) == p[fn] = ABSENT \/ p[fn] = NONE
  IN  SelectSeq(required_fields(t), Missing)

Caught(r, stage) ==
  (IF r.status = RAISED THEN Cancel(r.error, r.db) ELSE r) @@ [stage |-> stage]

run_action_DefaultTrue(t, org, role, confirmedArg, p, d, f) ==
  LET confirmed == IF confirmedArg = "omitted" THEN TRUE ELSE confirmedArg = "True"
      missing   == validate_inputs(t, p)
  IN  IF ~check_permission(t, role)
        THEN {Caught(Cancel("Permission denied", d), "permission")}
      ELSE IF missing # <<>>
        THEN {Caught([ActionResult(MISSING_DATA, TRUE, "None", d)
                        EXCEPT !.missing_fields = missing, !.prompt_message = TRUE],
                     "validate")}
      ELSE IF ~confirmed
        THEN {Caught(r, "preview") : r \in preview(t, org, p, d, f)}
      ELSE {Caught(r, "confirm") : r \in confirm(t, org, p, d, f)}

run_action(t, org, role, confirmedArg, p, d, f) ==
  LET confirmed == IF confirmedArg = "omitted" THEN FALSE ELSE confirmedArg = "True"
      missing   == validate_inputs(t, p)
  IN  IF ~check_permission(t, role)
        THEN {Caught(Cancel("Permission denied", d), "permission")}
      ELSE IF missing # <<>>
        THEN {Caught([ActionResult(MISSING_DATA, TRUE, "None", d)
                        EXCEPT !.missing_fields = missing, !.prompt_message = TRUE],
                     "validate")}
      ELSE IF ~confirmed
        THEN {Caught(r, "preview") : r \in preview(t, org, p, d, f)}
      ELSE {Caught(r, "confirm") : r \in confirm(t, org, p, d, f)}

(***************************************************************************)
(* One run_action call by a user of organisation org with the given role.  *)
(* f is the data-store operation of the call that fails (0: none).         *)
(***************************************************************************)
NoCall == [op |-> "none"]

MaxOpsOf(t) ==
  CASE t = "create_reorder_request" -> 5
    [] t = "update_order_status"    -> 1
    [] t = "generate_report"        -> 1
    [] t = "create_order"           -> MaxOps
    [] t = "add_product"            -> 2
    [] t = "update_product"         -> 4
    [] t = "update_stock"           -> 4
    [] t = "transfer_stock"         -> 5

RunAction(t, org, role, confirmedArg, p, f) ==
  \E r \in run_action(t, org, role, confirmedArg, p, db, f) :
    /\ r.db # db => nwrites < MaxWrites
    /\ r.stage \in {"permission", "validate"} => f <= 1
    /\ db' = r.db
    /\ nwrites' = IF r.db # db THEN nwrites + 1 ELSE nwrites
    /\ last' = [op |-> "run_action", tool |-> t, org |-> org, role |-> role,
                confirmedArg |-> confirmedArg, params |-> p, failAt |-> f,
                result |-> [x \in DOMAIN r \ {"db"} |-> r[x]]]
    /\ UNCHANGED <<ledgerVars, calls, turnVars>>

RunTool(t) ==
  /\ last = NoCall
  /\ \E org \in Orgs, role \in Roles, c \in {"omitted", "False", "True"},
        p \in ParamSpace(t), f \in 0..MaxOpsOf(t) :
       RunAction(t, org, role, c, p, f)

(***************************************************************************)
(* The caller is done with the ActionResult: nothing of a call outlives    *)
(* its request/response round trip except the rows it wrote.               *)
(***************************************************************************)
Discard ==
  /\ last # NoCall
  /\ last' = NoCall
  /\ UNCHANGED <<db, nwrites, ledgerVars, calls, turnVars>>

ActInit ==
  /\ db = InitDb
  /\ nwrites = 0
  /\ last = NoCall
  /\ used = [o \in Orgs |-> <<>>]
  /\ limit = [o \in Orgs |-> <<>>]
  /\ used0 = used
  /\ requested = [o \in Orgs |-> 0]
  /\ calls = <<>>
  /\ conn = <<>>
  /\ hist = <<>>
  /\ mem = 0
  /\ events = 0

ActNext ==
  \/ RunTool("create_reorder_request")
  \/ RunTool("update_order_status")
  \/ RunTool("generate_report")
  \/ RunTool("create_order")
  \/ Discard

SpecAction == ActInit /\ [][ActNext]_vars

(***************************************************************************)
(* The same calls on the inventory action tools.                           *)
(***************************************************************************)
InventoryCallers == {"manager", "user"}

RunInventoryTool(t) ==
  /\ last = NoCall
  /\ \E org \in Orgs, role \in InventoryCallers, c \in {"False", "True"},
        p \in ParamSpace(t), f \in 0..MaxOpsOf(t) :
       RunAction(t, org, role, c, p, f)

InventoryNext ==
  \/ RunInventoryTool("add_product")
  \/ RunInventoryTool("update_product")
  \/ RunInventoryTool("update_stock")
  \/ RunInventoryTool("transfer_stock")
  \/ Discard

SpecInventory == ActInit /\ [][InventoryNext]_vars

(***************************************************************************)
(* C1: a run_action call whose confirmed argument is False or omitted      *)
(* leaves every table of the data store as it was.                         *)
(***************************************************************************)
C1_UnconfirmedNoWrite ==
  [][(last'.op = "run_action" /\ last'.confirmedArg # "True") => db' = db]_vars

C1_Witness ==
  /\ last.op = "run_action"
  /\ last.confirmedArg = "omitted"
  /\ last.result.status = PENDING_CONFIRMATION
  /\ db # InitDb

(***************************************************************************)
(* C2: run_action with confirmed=False never returns EXECUTED.             *)
(***************************************************************************)
C2_UnconfirmedNeverExecuted ==
  (last.op = "run_action" /\ last.confirmedArg # "True")
     => last.result.status # EXECUTED

C2_Witness ==
  /\ last.op = "run_action"
  /\ last.confirmedArg = "False"
  /\ last.result.stage = "preview"
  /\ last.result.status = CANCELLED
  /\ last.result.error = "TypeError"

(***************************************************************************)
(* C10: when the caller's role is neither admin nor one of the tool's      *)
(* required_roles, run_action returns CANCELLED with error 'Permission     *)
(* denied' and success false, whatever confirmed and the parameters are:   *)
(* no field is reported missing, nothing is previewed, no row is written   *)
(* and a failing data store goes unnoticed.                                *)
(***************************************************************************)
C10_PermissionDenied ==
  [][(/\ last'.op = "run_action"
      /\ required_roles(last'.tool) # {}
      /\ last'.role # "admin"
      /\ last'.role \notin required_roles(last'.tool))
     => /\ last'.result.status = CANCELLED
        /\ last'.result.success = FALSE
        /\ last'.result.error = "Permission denied"
        /\ last'.result.missing_fields = <<>>
        /\ last'.result.preview_data = <<>>
        /\ last'.result.created_id = <<>>
        /\ db' = db]_vars

C10_Witness ==
  /\ last.op = "run_action"
  /\ last.role = "analyst"
  /\ last.tool = "create_order"
  /\ last.confirmedArg = "True"
  /\ last.failAt = 1
  /\ validate_inputs(last.tool, last.params) # <<>>
  /\ last.result.error = "Permission denied"

(***************************************************************************)
(* C11: for a caller who passes check_permission, when a required field is *)
(* absent from the keyword arguments or is None, run_action returns        *)
(* MISSING_DATA with success true and missing_fields holding exactly the   *)
(* required fields that are absent or None, whatever confirmed is; preview *)
(* and confirm are not reached, so no row is written and a failing data    *)
(* store goes unnoticed.                                                   *)
(***************************************************************************)
MissingFields(t, p) ==
  {required_fields(t)[i] : i \in {j \in 1..Len(required_fields(t)) :
      p[required_fields(t)[j]] \in {ABSENT, NONE}}}

C12_ConfirmAllOrNothing ==
  [][(/\ last'.op = "run_action"
      /\ last'.result.stage = "confirm"
      /\ last'.result.status = CANCELLED)
     => db' = db]_vars

C12_Witness ==
  /\ last.op = "run_action"
  /\ last.tool = "create_order"
  /\ last.result.status = CANCELLED
  /\ last.result.error = "Failed to create order"
  /\ \E o \in db.order \ InitDb.order :
        Cardinality({i \in db.orderItem : i.oid = o.oid}) < Len(ParseItems(last.params["items"]))

(***************************************************************************)
(* C13: no run_action call made for a user of one organisation, whatever   *)
(* confirmed and the parameters are, creates or modifies a row that        *)
(* belongs to another organisation or references a product, warehouse or   *)
(* order of another organisation.                                          *)
(***************************************************************************)
ForeignRows(d0, d1, org) ==
  LET ProductOrgs(pid)   == {r.org : r \in {x \in d1.product : x.pid = pid}}
      WarehouseOrgs(wid) == {r.org : r \in {x \in d1.warehouse : x.wid = wid}}
      OrderOrgs(oid)     == {r.org : r \in {x \in d1.order : x.oid = oid}}
      Foreign(orgs)      == orgs \ {org} # {}
  IN  [product   |-> {r \in d1.product \ d0.product : r.org # org},
       order     |-> {r \in d1.order \ d0.order : r.org # org},
       reorder   |-> {r \in d1.reorder \ d0.reorder :
                        Foreign({r.org} \cup ProductOrgs(r.pid) \cup WarehouseOrgs(r.wid))},
       orderItem |-> {r \in d1.orderItem \ d0.orderItem :
                        Foreign(OrderOrgs(r.oid) \cup ProductOrgs(r.pid))},
       price     |-> {r \in d1.price \ d0.price : Foreign(ProductOrgs(r.pid))},
       stock     |-> {r \in d1.stock \ d0.stock :
                        Foreign(ProductOrgs(r.pid) \cup WarehouseOrgs(r.wid))}]

C13_NoCrossOrgWrite ==
  [][last'.op = "run_action"
       => \A tbl \in DOMAIN ForeignRows(db, db', last'.org) :
             ForeignRows(db, db', last'.org)[tbl] = {}]_vars

C13_Witness ==
  /\ last.op = "run_action"
  /\ last.tool = "update_product"
  /\ last.org = 1
  /\ last.params["product_id"] = I(3)
  /\ last.result.status = EXECUTED
  /\ \E r \in db.product : r.pid = 3 /\ r.org = 2
  /\ PriceOf(InitDb, 3) = <<1>>
  /\ PriceOf(db, 3) = <<5>>

(***************************************************************************)
(* TokenLimiter (tokens/limiter.py).  used[o] and limit[o] are the Redis   *)
(* keys tokens:{o}:used and tokens:{o}:limit: NIL while the key is unset,  *)
(* <<n>> once it holds n.                                                  *)
(***************************************************************************)
NIL == <<>>

default_org_token_limit == 1000000

token_reserve_tenths == 1

Max(a, b) == IF a > b THEN a ELSE b

Min(a, b) == IF a < b THEN a ELSE b

RedisInt(v, default) == IF v = NIL THEN default ELSE v[1]

get_quota(o, u, l) ==
  LET usedN  == RedisInt(u[o], 0)
      limitN == RedisInt(l[o], default_org_token_limit)
  IN  [used |-> usedN, limit |-> limitN, remaining |-> Max(0, limitN - usedN)]

required_tokens(e) == (e * (10 + token_reserve_tenths)) \div 10

check_quota(o, e, u, l) == ~(get_quota(o, u, l).remaining < required_tokens(e))

incrby_GetThenSet(cur, seen, n) == RedisInt(seen, 0) + n

incrby(cur, seen, n) == RedisInt(cur, 0) + n

(***************************************************************************)
(* Concurrent callers of record_usage: INCRBY, then emit_token_event, then *)
(* the return of the INCRBY result.                                        *)
(* seen is the counter at the time the call was issued; requested[o] sums  *)
(* the amounts of the record_usage calls issued for o.                     *)
(***************************************************************************)
MaxRecords == 1

Callers == {"s1", "s2", "s3"}

CallerOrg(c) == IF c = "s3" THEN 2 ELSE 1

UsageTotals == {5, 50}

Idle == [pc |-> "idle", op |-> "none", n |-> 0]

InFlight == {c \in Callers : calls[c].pc # "idle"}

RecordBegin(c) ==
  /\ calls[c].pc = "idle"
  /\ calls[c].n < MaxRecords
  /\ \E t \in UsageTotals :
       /\ calls' = [calls EXCEPT ![c] = [pc |-> "incrby", op |-> "record_usage", n |-> @.n + 1,
                                         total_tokens |-> t, seen |-> used[CallerOrg(c)]]]
       /\ requested' = [requested EXCEPT ![CallerOrg(c)] = @ + t]
  /\ UNCHANGED <<db, nwrites, last, used, limit, used0, turnVars>>

RecordIncr(c) ==
  /\ calls[c].pc = "incrby"
  /\ LET new_total == incrby(used[CallerOrg(c)], calls[c].seen, calls[c].total_tokens)
     IN  /\ used' = [used EXCEPT ![CallerOrg(c)] = <<new_total>>]
         /\ calls' = [calls EXCEPT ![c] = [@ EXCEPT !.pc = "emit"] @@ [new_total |-> new_total]]
  /\ UNCHANGED <<db, nwrites, last, limit, used0, requested, turnVars>>

RecordEmit(c) ==
  /\ calls[c].pc = "emit"
  /\ \E published \in BOOLEAN :
       /\ events' = IF published THEN events + 1 ELSE events
       /\ calls' = [calls EXCEPT ![c] = [pc |-> "idle", op |-> "record_usage", n |-> @.n,
                                         total_tokens |-> @.total_tokens,
                                         new_total |-> @.new_total]]
  /\ UNCHANGED <<db, nwrites, last, ledgerVars, conn, hist, mem>>

LedgerInit ==
  /\ db = InitDb
  /\ nwrites = 0
  /\ last = NoCall
  /\ used \in [Orgs -> {NIL, <<950>>}]
  /\ limit \in [Orgs -> {NIL, <<1000>>}]
  /\ used0 = used
  /\ requested = [o \in Orgs |-> 0]
  /\ calls = [c \in Callers |-> Idle]
  /\ conn = <<>>
  /\ hist = <<>>
  /\ mem = 0
  /\ events = 0

LedgerNext ==
  \E c \in Callers :
    \/ RecordBegin(c)
    \/ RecordIncr(c)
    \/ RecordEmit(c)

SpecLedger == LedgerInit /\ [][LedgerNext]_vars

(***************************************************************************)
(* check_quota as a function of the ledger and the estimate: the ledger    *)
(* and the estimate are drawn at the start, Check applies check_quota.     *)
(***************************************************************************)
Estimates == {0, 4, 5, 40, 46, 100}

Check_Reserves ==
  /\ last.op = "estimate"
  /\ last' = [op |-> "check_quota", org |-> last.org, e |-> last.e,
              remaining |-> get_quota(last.org, used, limit).remaining,
              ok |-> check_quota(last.org, last.e, used, limit)]
  /\ used' = [used EXCEPT ![last.org] =
                <<RedisInt(@, 0) + (IF check_quota(last.org, last.e, used, limit)
                                      THEN required_tokens(last.e) ELSE 0)>>]
  /\ UNCHANGED <<db, nwrites, limit, used0, requested, events, calls, turnVars>>

Check ==
  /\ last.op = "estimate"
  /\ last' = [op |-> "check_quota", org |-> last.org, e |-> last.e,
              remaining |-> get_quota(last.org, used, limit).remaining,
              ok |-> check_quota(last.org, last.e, used, limit)]
  /\ UNCHANGED <<db, nwrites, ledgerVars, calls, turnVars>>

QuotaInit ==
  /\ db = InitDb
  /\ nwrites = 0
  /\ last \in [op : {"estimate"}, org : Orgs, e : Estimates]
  /\ used \in [Orgs -> {NIL, <<0>>, <<950>>, <<995>>, <<1000>>, <<1005>>}]
  /\ limit \in [Orgs -> {NIL, <<0>>, <<1000>>}]
  /\ used[2] = NIL /\ limit[2] = <<1000>>
  /\ used0 = used
  /\ requested = [o \in Orgs |-> 0]
  /\ calls = <<>>
  /\ conn = <<>>
  /\ hist = <<>>
  /\ mem = 0
  /\ events = 0

QuotaNext == Check

SpecQuota == QuotaInit /\ [][QuotaNext]_vars

(***************************************************************************)
(* C4: whatever the interleaving of the record_usage calls issued for an   *)
(* organisation, once none is in flight get_quota reports the counter's    *)
(* starting value plus the sum of their amounts, and each call returns     *)
(* the counter's value right after its own INCRBY.                         *)
(***************************************************************************)
C4_NoLostUpdate ==
  /\ [](InFlight = {} =>
          \A o \in Orgs :
            get_quota(o, used, limit).used = RedisInt(used0[o], 0) + requested[o])
  /\ [][\A c \in Callers :
          (calls[c].pc = "incrby" /\ calls'[c].pc = "emit")
            => /\ calls'[c].new_total = RedisInt(used[CallerOrg(c)], 0) + calls[c].total_tokens
               /\ used'[CallerOrg(c)] = <<calls'[c].new_total>>]_vars

C4_Witness ==
  /\ InFlight = {}
  /\ requested[1] = 55
  /\ calls["s1"].op = "record_usage"
  /\ calls["s2"].op = "record_usage"
  /\ calls["s1"].new_total = RedisInt(used0[1], 0) + 5
  /\ calls["s2"].new_total = RedisInt(used0[1], 0) + 55

(***************************************************************************)
(* C5: check_quota(e) succeeds exactly when e * (1 + buffer) <= remaining, *)
(* with buffer = 10%.                                                      *)
(***************************************************************************)
C5_CheckQuotaIffBuffered ==
  last.op = "check_quota" => (last.ok <=> last.e * 11 <= last.remaining * 10)

C5_Witness ==
  /\ last.op = "check_quota"
  /\ last.e = 46
  /\ last.remaining = 50
  /\ last.ok

(***************************************************************************)
(* allocate_budget (agents/router/budget_allocator.py).  The complexity    *)
(* multipliers 0.7, 1.0 and 1.5 are kept in tenths; allocate_budget_node   *)
(* passes no complexity, so the pipeline runs with "medium".               *)
(***************************************************************************)
TASK_BUDGETS(task_type) ==
  CASE task_type = "routing"   -> 500
    [] task_type = "analytics" -> 8000
    [] task_type = "orders"    -> 6000
    [] task_type = "inventory" -> 5000
    [] task_type = "complex"   -> 15000
    [] OTHER                   -> 3000

multipliers(complexity) ==
  CASE complexity = "low"  -> 7
    [] complexity = "high" -> 15
    [] OTHER               -> 10

allocate_budget_NoClamp(o, task_type, complexity, u, l) ==
  LET available        == get_quota(o, u, l).remaining
      base_budget      == TASK_BUDGETS(task_type)
      requested_budget == (base_budget * multipliers(complexity)) \div 10
      routing_budget   == Min(500, requested_budget \div 10)
      reserve          == requested_budget \div 10
  IN  [total_budget   |-> requested_budget,
       routing_budget |-> routing_budget,
       agent_budget   |-> (requested_budget - routing_budget) - reserve,
       reserve        |-> reserve]

allocate_budget(o, task_type, complexity, u, l) ==
  LET available        == get_quota(o, u, l).remaining
      base_budget      == TASK_BUDGETS(task_type)
      wanted           == (base_budget * multipliers(complexity)) \div 10
      requested_budget == IF wanted > available THEN available ELSE wanted
      routing_budget   == Min(500, requested_budget \div 10)
      reserve          == requested_budget \div 10
  IN  [total_budget   |-> requested_budget,
       routing_budget |-> routing_budget,
       agent_budget   |-> (requested_budget - routing_budget) - reserve,
       reserve        |-> reserve]

(***************************************************************************)
(* allocate_budget applied to every task type and complexity, for an       *)
(* organisation whose counters are unset, below, at or above the limit.    *)
(***************************************************************************)
TaskTypes == {"routing", "analytics", "orders", "inventory", "general", "complex", "insights"}

Complexities == {"low", "medium", "high", "extreme"}

Allocate ==
  /\ last.op = "task"
  /\ last' = [op |-> "allocate_budget", org |-> last.org, task_type |-> last.task_type,
              complexity |-> last.complexity,
              remaining |-> get_quota(last.org, used, limit).remaining,
              budget |-> allocate_budget(last.org, last.task_type, last.complexity,
                                         used, limit)]
  /\ UNCHANGED <<db, nwrites, ledgerVars, calls, turnVars>>

BudgetInit ==
  /\ db = InitDb
  /\ nwrites = 0
  /\ last \in [op : {"task"}, org : Orgs, task_type : TaskTypes, complexity : Complexities]
  /\ used \in [Orgs -> {NIL, <<0>>, <<950>>, <<1000>>, <<1005>>}]
  /\ limit \in [Orgs -> {NIL, <<0>>, <<1000>>, <<20000>>}]
  /\ used[2] = NIL /\ limit[2] = <<1000>>
  /\ used0 = used
  /\ requested = [o \in Orgs |-> 0]
  /\ calls = <<>>
  /\ conn = <<>>
  /\ hist = <<>>
  /\ mem = 0
  /\ events = 0

SpecBudget == BudgetInit /\ [][Allocate]_vars

(***************************************************************************)
(* C14: for every organisation state, task type and complexity, the        *)
(* BudgetAllocation returned by allocate_budget has routing_budget +       *)
(* agent_budget + reserve = total_budget, total_budget is at most the      *)
(* remaining quota read by the call, and all four values are at least 0.   *)
(***************************************************************************)
C14_AllocationAddsUp ==
  last.op = "allocate_budget" =>
    /\ last.budget.routing_budget + last.budget.agent_budget + last.budget.reserve
          = last.budget.total_budget
    /\ last.budget.total_budget <= last.remaining
    /\ last.budget.total_budget >= 0
    /\ last.budget.routing_budget >= 0
    /\ last.budget.agent_budget >= 0
    /\ last.budget.reserve >= 0

C14_Witness ==
  /\ last.op = "allocate_budget"
  /\ last.task_type = "complex"
  /\ last.complexity = "high"
  /\ last.remaining = 50
  /\ last.budget = [total_budget |-> 50, routing_budget |-> 5, agent_budget |-> 40,
                    reserve |-> 5]

(***************************************************************************)
(* The router (agents/router): the labels the classifier model may answer, *)
(* INTENT_AGENT_MAP and route_decision.                                    *)
(***************************************************************************)
Intents == {"analytics", "inventory", "orders", "insights", "general", "other"}

get_agent_for_intent_NoOrders(intent) ==
  CASE intent = "analytics" -> "analytics_agent"
    [] intent = "inventory" -> "inventory_agent"
    [] intent = "insights"  -> "analytics_agent"
    [] OTHER                -> "general_agent"

get_agent_for_intent(intent) ==
  CASE intent = "analytics" -> "analytics_agent"
    [] intent = "inventory" -> "inventory_agent"
    [] intent = "orders"    -> "orders_agent"
    [] intent = "insights"  -> "analytics_agent"
    [] OTHER                -> "general_agent"

route_decision(agent, error) ==
  IF error # "" THEN "end"
  ELSE IF agent = "analytics_agent" THEN "analytics"
  ELSE IF agent = "inventory_agent" THEN "inventory"
  ELSE IF agent = "orders_agent" THEN "orders"
  ELSE "general"

(***************************************************************************)
(* BaseAgent.run and BaseAgent.invoke_llm (agents/base/agent.py): where    *)
(* control goes after the quota pre-check and after model.ainvoke.         *)
(***************************************************************************)
AfterCheck_Proceed(ok) == "execute"

AfterCheck(ok) == IF ok THEN "execute" ELSE "respond"

AfterInvoke_NoRecord(returned) == IF returned THEN "post" ELSE "log"

AfterInvoke(returned) == IF returned THEN "record" ELSE "log"

(***************************************************************************)
(* A chat message, by what the handlers read in it: whether it is a bare   *)
(* yes/no reply, the action tool its keywords select in                    *)
(* OrdersAgent._execute_tools, whether its keywords also select read       *)
(* tools, and the keyword arguments extract_action_params finds in it.     *)
(***************************************************************************)
NoParams == <<>>

OrderParams(name, items) ==
  [customer_name |-> name, customer_email |-> S("x"), items |-> items,
   payment_method |-> S("x"), shipping_address |-> S("x"), extra |-> ABSENT]

Messages ==
  { [text |-> "show orders", reply |-> "other", tool |-> "none", reads |-> TRUE,
     params |-> NoParams],
    [text |-> "yes", reply |-> "yes", tool |-> "none", reads |-> TRUE, params |-> NoParams],
    [text |-> "no", reply |-> "no", tool |-> "none", reads |-> TRUE, params |-> NoParams],
    [text |-> "create order, 1 unit of a", reply |-> "other", tool |-> "create_order",
     reads |-> TRUE,
     params |-> OrderParams(S("x"), L(<<[product_name |-> <<"a">>, quantity |-> I(1)]>>))],
    [text |-> "create order", reply |-> "other", tool |-> "create_order", reads |-> TRUE,
     params |-> OrderParams(ABSENT, ABSENT)],
    [text |-> "mark as delivered #1", reply |-> "other", tool |-> "update_order_status",
     reads |-> FALSE,
     params |-> [order_id |-> I(1), new_status |-> S("delivered"), extra |-> ABSENT]] }

(***************************************************************************)
(* One chat connection (api/chat.py): the socket loop handles one client   *)
(* message at a time, process_message runs the router pipeline.  conn is   *)
(* the connection with the state of the turn in progress; hist lists the   *)
(* inference calls of the turn; mem counts the messages in the session's   *)
(* conversation memory; events counts the published usage events.          *)
(* Other connections of the organisation act on the ledger through         *)
(* record_usage.                                                           *)
(***************************************************************************)
MaxTurns == 2

TurnUsage == {50}

default_token_budget == 10000

NoMessage ==
  [text |-> "", reply |-> "other", tool |-> "none", reads |-> FALSE, params |-> NoParams]

Fresh ==
  [msg |-> NoMessage, intent |-> "", agent |-> "", token_budget |-> default_token_budget,
   tokens_used |-> 0, error |-> "", raised |-> FALSE, output |-> "",
   checked |-> FALSE, refused |-> FALSE, entered |-> FALSE, action |-> "none",
   usage |-> 0, mem0 |-> 0, node |-> "", budget |-> -1, said |-> ""]

ToolUpdate == [type |-> "tool_update", message |-> "classifying intent"]

Error(m) == [type |-> "error", message |-> m]

Complete == [type |-> "complete", message |-> "output"]

QuotaMessage == "Token quota exceeded"

LlmCall(site, checked, returned, tokens) ==
  [site |-> site, checked |-> checked, returned |-> returned, tokens |-> tokens,
   attempted |-> FALSE, recorded |-> FALSE]

(* add_message("user", ...) then add_message("assistant", ...): each may   *)
(* raise, leaving what was added before it.                                *)
AddMessages(m) ==
  {[mem |-> m + 2, raised |-> FALSE], [mem |-> m + 1, raised |-> TRUE],
   [mem |-> m, raised |-> TRUE]}

ReceiveCancel ==
  /\ conn.pc = "idle"
  /\ conn' = [conn EXCEPT !.cancelled = TRUE, !.queued = FALSE,
                            !.sent = <<Error("Request cancelled")>>]
  /\ UNCHANGED <<db, nwrites, last, ledgerVars, calls, hist, mem, events>>

ReceiveEmpty ==
  /\ conn.pc = "idle"
  /\ ~conn.queued
  /\ conn' = [conn EXCEPT !.sent = <<Error("Empty message")>>]
  /\ UNCHANGED <<db, nwrites, last, ledgerVars, calls, hist, mem, events>>

ReceiveMessage ==
  /\ conn.pc = "idle"
  /\ ~conn.queued
  /\ conn.turn < MaxTurns
  /\ \E m \in Messages :
       conn' = [conn EXCEPT !.turn = @ + 1,
                            !.t = [Fresh EXCEPT !.msg = m, !.mem0 = mem],
                            !.sent = IF conn.cancelled THEN <<>> ELSE <<ToolUpdate>>,
                            !.pc = IF conn.cancelled THEN "sent" ELSE "classify"]
  /\ hist' = <<>>
  /\ UNCHANGED <<db, nwrites, last, ledgerVars, calls, mem, events>>

Classify_Propagates ==
  /\ conn.pc = "classify"
  /\ \/ \E intent \in Intents :
          /\ conn' = [conn EXCEPT !.t.intent = intent,
                                  !.t.agent = get_agent_for_intent(intent),
                                  !.pc = "allocate"]
          /\ hist' = Append(hist, LlmCall("classify", conn.t.checked, TRUE, 0))
     \/ /\ conn' = [conn EXCEPT !.t.error = "classification failed", !.pc = "allocate"]
        /\ hist' = Append(hist, LlmCall("classify", conn.t.checked, FALSE, 0))
  /\ UNCHANGED <<db, nwrites, last, ledgerVars, calls, mem, events>>

Classify ==
  /\ conn.pc = "classify"
  /\ \/ \E intent \in Intents :
          /\ conn' = [conn EXCEPT !.t.intent = intent,
                                  !.t.agent = get_agent_for_intent(intent),
                                  !.pc = "allocate"]
          /\ hist' = Append(hist, LlmCall("classify", conn.t.checked, TRUE, 0))
     \/ /\ conn' = [conn EXCEPT !.t.intent = "general", !.t.agent = "general_agent",
                                !.pc = "allocate"]
        /\ hist' = Append(hist, LlmCall("classify", conn.t.checked, FALSE, 0))
  /\ UNCHANGED <<db, nwrites, last, ledgerVars, calls, mem, events>>

AllocateBudget ==
  /\ conn.pc = "allocate"
  /\ \/ LET budget == allocate_budget(conn.org, conn.t.intent, "medium", used, limit)
            next   == route_decision(conn.t.agent, conn.t.error)
        IN  conn' = [conn EXCEPT !.t.token_budget = budget.agent_budget,
                                 !.t.budget = budget.agent_budget,
                                 !.t.node = next,
                                 !.pc = CASE next = "end"     -> "respond"
                                          [] next = "general" -> "general"
                                          [] OTHER            -> "check"]
     \/ conn' = [conn EXCEPT !.t.raised = TRUE, !.pc = "respond"]
  /\ UNCHANGED <<db, nwrites, last, ledgerVars, calls, hist, mem, events>>

RouteGeneral ==
  /\ conn.pc = "general"
  /\ conn' = [conn EXCEPT !.t.output = "text", !.pc = "respond"]
  /\ UNCHANGED <<db, nwrites, last, ledgerVars, calls, hist, mem, events>>

PreCheck ==
  /\ conn.pc = "check"
  /\ \/ LET ok == check_quota(conn.org, conn.t.token_budget, used, limit)
        IN  conn' = [conn EXCEPT !.t.checked = ok,
                                 !.t.refused = ~ok,
                                 !.t.error = IF ok THEN "" ELSE QuotaMessage,
                                 !.t.output = IF ok THEN "" ELSE "error",
                                 !.pc = AfterCheck(ok)]
     \/ conn' = [conn EXCEPT !.t.raised = TRUE, !.pc = "respond"]
  /\ UNCHANGED <<db, nwrites, last, ledgerVars, calls, hist, mem, events>>

(* The handler's execute up to its inference call: memory read, tools     *)
(* (OrdersAgent runs the action tool of the message with confirmed=False), *)
(* and the early returns on missing data, pending confirmation and empty   *)
(* data.                                                                   *)
HandlerFailed(c) == [c EXCEPT !.t.error = "handler error", !.t.output = "error", !.pc = "log"]

EarlyReturn(c, a) ==
  /\ mem' = a.mem
  /\ conn' = IF a.raised THEN HandlerFailed(c)
             ELSE [c EXCEPT !.t.output = "analytics", !.pc = "log"]

ToolsDone(c, reads) ==
  \/ \E a \in AddMessages(mem) :
       reads \in {TRUE, FALSE} /\ EarlyReturn([c EXCEPT !.t.said = "empty_data"], a)
  \/ reads /\ mem' = mem /\ conn' = [c EXCEPT !.pc = "llm"]

Execute ==
  /\ conn.pc = "execute"
  /\ LET c == [conn EXCEPT !.t.entered = TRUE]
     IN  \/ /\ conn' = HandlerFailed(c)
            /\ UNCHANGED <<db, nwrites, mem>>
         \/ /\ c.t.agent = "orders_agent" /\ c.t.msg.tool # "none"
            /\ \E f \in {0, 1} :
                 \E r \in run_action(c.t.msg.tool, c.org, c.role, "False", c.t.msg.params, db, f) :
                   LET ca == [c EXCEPT !.t.action = r.status]
                   IN  /\ db' = r.db
                       /\ nwrites' = IF r.db # db THEN nwrites + 1 ELSE nwrites
                       /\ IF r.status \in {MISSING_DATA, PENDING_CONFIRMATION}
                            THEN \E a \in AddMessages(mem) :
                                   EarlyReturn([ca EXCEPT !.t.said = r.status], a)
                            ELSE ToolsDone(ca, c.t.msg.reads)
         \/ /\ ~(c.t.agent = "orders_agent" /\ c.t.msg.tool # "none")
            /\ ToolsDone(c, TRUE)
            /\ UNCHANGED <<db, nwrites>>
  /\ UNCHANGED <<last, ledgerVars, calls, hist, events>>

InvokeLLM ==
  /\ conn.pc = "llm"
  /\ \/ \E t \in TurnUsage :
          /\ conn' = [conn EXCEPT !.t.usage = t, !.pc = AfterInvoke(TRUE)]
          /\ hist' = Append(hist, LlmCall("handler", conn.t.checked, TRUE, t))
     \/ /\ conn' = [HandlerFailed(conn) EXCEPT !.pc = AfterInvoke(FALSE)]
        /\ hist' = Append(hist, LlmCall("handler", conn.t.checked, FALSE, 0))
  /\ UNCHANGED <<db, nwrites, last, ledgerVars, calls, mem, events>>

RecordUsage ==
  /\ conn.pc = "record"
  /\ \/ /\ used' = [used EXCEPT ![conn.org] = <<incrby(@, @, conn.t.usage)>>]
        /\ requested' = [requested EXCEPT ![conn.org] = @ + conn.t.usage]
        /\ hist' = [hist EXCEPT ![Len(hist)].attempted = TRUE, ![Len(hist)].recorded = TRUE]
        /\ conn' = [conn EXCEPT !.pc = "emit"]
     \/ /\ hist' = [hist EXCEPT ![Len(hist)].attempted = TRUE]
        /\ conn' = HandlerFailed(conn)
        /\ UNCHANGED <<used, requested>>
  /\ UNCHANGED <<db, nwrites, last, limit, used0, calls, mem, events>>

EmitEvent_Raises ==
  /\ conn.pc = "emit"
  /\ \/ /\ events' = events + 1
        /\ conn' = [conn EXCEPT !.t.tokens_used = @ + conn.t.usage, !.pc = "post"]
     \/ /\ events' = events
        /\ conn' = HandlerFailed(conn)
  /\ UNCHANGED <<db, nwrites, last, ledgerVars, calls, hist, mem>>

EmitEvent ==
  /\ conn.pc = "emit"
  /\ \E published \in BOOLEAN : events' = IF published THEN events + 1 ELSE events
  /\ conn' = [conn EXCEPT !.t.tokens_used = @ + conn.t.usage, !.pc = "post"]
  /\ UNCHANGED <<db, nwrites, last, ledgerVars, calls, hist, mem>>

PostLLM ==
  /\ conn.pc = "post"
  /\ \/ \E a \in AddMessages(mem) : EarlyReturn([conn EXCEPT !.t.said = "llm"], a)
     \/ mem' = mem /\ conn' = HandlerFailed(conn)
  /\ UNCHANGED <<db, nwrites, last, ledgerVars, calls, hist, events>>

LogExecution ==
  /\ conn.pc = "log"
  /\ \/ conn' = [conn EXCEPT !.pc = "respond"]
     \/ conn' = [conn EXCEPT !.t.raised = TRUE, !.pc = "respond"]
  /\ UNCHANGED <<db, nwrites, last, ledgerVars, calls, hist, mem, events>>

Respond_AlsoComplete ==
  /\ conn.pc = "respond"
  /\ conn' = [conn EXCEPT
                !.sent = IF conn.t.raised THEN Append(@, Error("Processing error"))
                         ELSE IF conn.cancelled THEN @
                         ELSE IF conn.t.error # ""
                           THEN Append(Append(@, Error(conn.t.error)), Complete)
                         ELSE Append(@, Complete),
                !.pc = "sent"]
  /\ UNCHANGED <<db, nwrites, last, ledgerVars, calls, hist, mem, events>>

Respond ==
  /\ conn.pc = "respond"
  /\ conn' = [conn EXCEPT
                !.sent = IF conn.t.raised THEN Append(@, Error("Processing error"))
                         ELSE IF conn.cancelled THEN @
                         ELSE IF conn.t.error # "" THEN Append(@, Error(conn.t.error))
                         ELSE Append(@, Complete),
                !.pc = "sent"]
  /\ UNCHANGED <<db, nwrites, last, ledgerVars, calls, hist, mem, events>>

(* process_message has returned: its context and state go out of scope.    *)
EndTurn ==
  /\ conn.pc = "sent"
  /\ conn' = [conn EXCEPT !.prev = conn.t.action, !.t = Fresh, !.sent = <<>>, !.pc = "idle"]
  /\ hist' = <<>>
  /\ UNCHANGED <<db, nwrites, last, ledgerVars, calls, mem, events>>

(* record_usage of another connection of the same organisation.            *)
OtherSession ==
  /\ calls["s2"].n < MaxRecords
  /\ \E t \in TurnUsage :
       LET new_total == incrby(used[CallerOrg("s2")], used[CallerOrg("s2")], t)
       IN  /\ used' = [used EXCEPT ![CallerOrg("s2")] = <<new_total>>]
           /\ requested' = [requested EXCEPT ![CallerOrg("s2")] = @ + t]
           /\ calls' = [calls EXCEPT !["s2"] = [pc |-> "idle", op |-> "record_usage",
                                                n |-> @.n + 1, total_tokens |-> t,
                                                new_total |-> new_total]]
  /\ UNCHANGED <<db, nwrites, last, limit, used0, turnVars>>

TurnInit ==
  /\ db = InitDb
  /\ nwrites = 0
  /\ last = NoCall
  /\ \E q \in {<<NIL, NIL>>, <<<<950>>, <<1000>>>>, <<<<1000>>, <<1000>>>>} :
       /\ used = [o \in Orgs |-> IF o = 1 THEN q[1] ELSE NIL]
       /\ limit = [o \in Orgs |-> IF o = 1 THEN q[2] ELSE NIL]
  /\ used0 = used
  /\ requested = [o \in Orgs |-> 0]
  /\ calls = [c \in Callers |-> Idle]
  /\ conn \in [org : {1}, role : {"manager", "user"}, pc : {"idle"}, cancelled : {FALSE},
               queued : {FALSE},
               turn : {0}, prev : {"none"}, sent : {<<>>}, t : {Fresh}]
  /\ hist = <<>>
  /\ mem = 0
  /\ events = 0

TurnNext ==
  \/ ReceiveCancel
  \/ ReceiveEmpty
  \/ ReceiveMessage
  \/ Classify
  \/ AllocateBudget
  \/ RouteGeneral
  \/ PreCheck
  \/ Execute
  \/ InvokeLLM
  \/ RecordUsage
  \/ EmitEvent
  \/ PostLLM
  \/ LogExecution
  \/ Respond
  \/ EndTurn
  \/ OtherSession

SpecTurn == TurnInit /\ [][TurnNext]_vars

HandlerCalls == {i \in DOMAIN hist : hist[i].site = "handler"}

Specialist == conn.t.agent \in {"analytics_agent", "inventory_agent", "orders_agent"}

(***************************************************************************)
(* C3: when the previous turn of the session ended with an action in       *)
(* PENDING_CONFIRMATION, a turn whose message is an affirmative reply runs *)
(* the pending action's confirm and ends EXECUTED (or CANCELLED), and a    *)
(* turn whose message is a negative reply ends the action CANCELLED        *)
(* without a write.  Stated for turns the orders handler completed.        *)
(***************************************************************************)
C3_PendingResolvedNextTurn ==
  (/\ conn.pc = "sent"
   /\ conn.prev = PENDING_CONFIRMATION
   /\ conn.t.agent = "orders_agent"
   /\ conn.sent = <<ToolUpdate, Complete>>)
  => /\ conn.t.msg.reply = "yes" => conn.t.action \in {EXECUTED, CANCELLED}
     /\ conn.t.msg.reply = "no" => (conn.t.action = CANCELLED /\ db = InitDb)

C3_Witness ==
  /\ conn.pc = "sent"
  /\ conn.prev = PENDING_CONFIRMATION
  /\ conn.t.agent = "orders_agent"
  /\ conn.t.msg.reply = "yes"
  /\ conn.t.action = "none"
  /\ conn.sent = <<ToolUpdate, Complete>>

(***************************************************************************)
(* C6: when the organisation's remaining quota is 0, a turn routed to a    *)
(* specialist handler issues no handler inference call and ends with the   *)
(* quota-exceeded error.                                                   *)
(***************************************************************************)
C6_ZeroQuotaRefused ==
  (/\ get_quota(conn.org, used0, limit).remaining = 0
   /\ Specialist
   /\ ~conn.t.raised)
  => /\ HandlerCalls = {}
     /\ conn.pc = "sent" => conn.sent = <<ToolUpdate, Error(QuotaMessage)>>

C6_Witness ==
  /\ get_quota(conn.org, used0, limit).remaining = 0
  /\ Specialist
  /\ conn.t.token_budget = 0
  /\ conn.t.checked
  /\ \E i \in HandlerCalls : hist[i].returned

(***************************************************************************)
(* C7: every inference call of a turn, the classification call included,   *)
(* comes after a successful check_quota of the turn, and once it has       *)
(* returned and the turn is over its tokens have been recorded.            *)
(***************************************************************************)
C7_CallsCheckedAndRecorded ==
  \A i \in DOMAIN hist :
    /\ hist[i].checked
    /\ (hist[i].returned /\ conn.pc = "sent") => hist[i].recorded

C7_Witness ==
  /\ conn.pc = "sent"
  /\ Len(hist) = 2
  /\ hist[1].site = "classify" /\ hist[1].returned /\ ~hist[1].checked /\ ~hist[1].recorded
  /\ hist[2].site = "handler" /\ hist[2].checked /\ hist[2].recorded

(***************************************************************************)
(* C8: once check_quota has failed in BaseAgent.run, execute is not        *)
(* entered: no action tool runs, no handler inference call is issued, the  *)
(* conversation memory and the used counter are not touched by the turn,   *)
(* and the turn answers the client with the quota error and nothing else   *)
(* (after the router's progress notice).                                   *)
(***************************************************************************)
C8_QuotaFailureAborts ==
  conn.t.refused
    => /\ ~conn.t.entered
       /\ conn.t.action = "none"
       /\ HandlerCalls = {}
       /\ \A i \in DOMAIN hist : ~hist[i].attempted
       /\ mem = conn.t.mem0
       /\ conn.t.tokens_used = 0
       /\ conn.pc \in {"respond", "sent"}
       /\ conn.pc = "sent" => conn.sent = <<ToolUpdate, Error(QuotaMessage)>>

C8_Witness ==
  /\ conn.t.refused
  /\ conn.pc = "sent"
  /\ conn.sent = <<ToolUpdate, Error(QuotaMessage)>>
  /\ get_quota(conn.org, used, limit).remaining < required_tokens(conn.t.token_budget)

(***************************************************************************)
(* C9: a handler inference call that has returned is followed at once by   *)
(* record_usage; when the handler fails after the increment, the turn      *)
(* answers with an error and the counter keeps the increment: it equals    *)
(* its starting value plus every recorded amount and never decreases.      *)
(***************************************************************************)
C9_RecordedBeforeHandlerGoesOn ==
  /\ [](\A i \in HandlerCalls :
          /\ hist[i].returned => (hist[i].attempted \/ conn.pc = "record")
          /\ (hist[i].recorded /\ conn.t.error # "")
               => /\ get_quota(conn.org, used, limit).used
                       = RedisInt(used0[conn.org], 0) + requested[conn.org]
                  /\ conn.pc = "sent" => conn.sent[Len(conn.sent)].type = "error")
  /\ [][\A o \in Orgs : RedisInt(used'[o], 0) >= RedisInt(used[o], 0)]_vars

C9_Witness ==
  /\ conn.pc = "sent"
  /\ conn.t.error = "handler error"
  /\ ~conn.t.raised
  /\ \E i \in HandlerCalls : hist[i].recorded
  /\ get_quota(conn.org, used, limit).used = RedisInt(used0[conn.org], 0) + 50
  /\ conn.sent = <<ToolUpdate, Error("handler error")>>


(***************************************************************************)
(* C15: when the intent-classification call raises, classify_node sets     *)
(* intent 'general' and agent 'general_agent' and leaves state.error       *)
(* unset; the turn goes on through budget allocation to the general        *)
(* handler, no specialist handler is entered, and (the quota read of       *)
(* allocate_budget not failing on its own) the client receives COMPLETE    *)
(* after the progress notice, not an error.                                *)
(***************************************************************************)
ClassifyRaised == hist # <<>> /\ hist[1].site = "classify" /\ ~hist[1].returned

C15_ClassifyFailureFallsBack ==
  ClassifyRaised =>
    /\ conn.t.intent = "general"
    /\ conn.t.agent = "general_agent"
    /\ conn.t.error = ""
    /\ conn.pc \in {"allocate", "general", "respond", "sent"}
    /\ ~conn.t.entered
    /\ Len(hist) = 1
    /\ (conn.pc = "general" => ~conn.t.raised)
    /\ (conn.pc = "respond" /\ ~conn.t.raised => conn.t.output = "text")
    /\ (conn.pc = "sent" /\ ~conn.t.raised => conn.sent = <<ToolUpdate, Complete>>)

C15_Witness ==
  /\ ClassifyRaised
  /\ conn.pc = "sent"
  /\ conn.t.output = "text"
  /\ conn.sent = <<ToolUpdate, Complete>>


(***************************************************************************)
(* C16: in every turn the router runs classify, then allocate_budget, then *)
(* one handler chosen by the static lookup on the intent label: analytics, *)
(* inventory and orders each go to their own handler and a label that is   *)
(* not in the table goes to the general handler.  A handler starts only    *)
(* after classification has run and context.token_budget has been set to   *)
(* the allocation's agent_budget, and the handler of a turn never changes. *)
(***************************************************************************)
HandlerStarted ==
  conn.pc \in {"general", "check", "execute", "llm", "record", "emit", "post", "log"}

C16_ClassifyAllocateDispatch ==
  /\ [] /\ HandlerStarted =>
             (/\ hist # <<>>
              /\ hist[1].site = "classify"
              /\ conn.t.budget # -1
              /\ conn.t.token_budget = conn.t.budget
              /\ conn.t.node \in {"analytics", "inventory", "orders", "general"}
              /\ (conn.pc = "general") = (conn.t.node = "general"))
        /\ conn.t.budget # -1 =>
             (/\ (conn.t.intent \in {"analytics", "inventory", "orders"}
                   => conn.t.node = conn.t.intent)
              /\ (conn.t.intent = "insights" => conn.t.node = "analytics")
              /\ (conn.t.intent \notin {"analytics", "inventory", "orders", "insights"}
                   => conn.t.node = "general"))
        /\ (conn.t.budget = -1 => conn.t.node = "")
  /\ [][conn.t.node # "" => (conn'.t.node = conn.t.node \/ conn'.t = Fresh)]_vars

C16_Witness ==
  /\ conn.pc = "execute"
  /\ conn.t.intent = "orders"
  /\ conn.t.node = "orders"
  /\ conn.t.token_budget = 40
  /\ hist[1].returned


(***************************************************************************)
(* C17: when a handler's execute raises, the exception stays inside the    *)
(* turn: the client receives exactly one ERROR message for the turn and no *)
(* COMPLETE, and the message loop goes back to waiting for the next        *)
(* message with a fresh turn state and the connection not cancelled.       *)
(***************************************************************************)
ExecuteRaised == conn.t.error = "handler error"

C18_RefusalSurfaced ==
  (/\ conn.t.agent = "orders_agent"
   /\ conn.t.action = CANCELLED
   /\ conn.pc = "sent"
   /\ conn.sent = <<ToolUpdate, Complete>>)
  => conn.t.said # "empty_data"

C18_Witness ==
  /\ conn.role = "user"
  /\ conn.t.agent = "orders_agent"
  /\ conn.t.msg.text = "mark as delivered #1"
  /\ conn.t.action = CANCELLED
  /\ conn.pc = "sent"
  /\ conn.sent = <<ToolUpdate, Complete>>
  /\ conn.t.said = "empty_data"
  /\ hist = <<LlmCall("classify", FALSE, TRUE, 0)>>


(***************************************************************************)
(* C19: when the queue is unavailable or the publish raises, record_usage  *)
(* still completes: the used counter already holds the increment, nothing  *)
(* is raised into the handler, and the state the handler goes on with, and *)
(* so the response of the turn, is the same whether or not the event was   *)
(* published.                                                              *)
(***************************************************************************)
C19_PublishFailureSwallowed ==
  /\ [] (conn.pc = "emit" =>
           /\ hist[Len(hist)].recorded
           /\ get_quota(conn.org, used, limit).used
                 >= RedisInt(used0[conn.org], 0) + conn.t.usage
           /\ get_quota(conn.org, used, limit).used
                 = RedisInt(used0[conn.org], 0) + requested[conn.org])
  /\ [][conn.pc = "emit" =>
          /\ events' \in {events, events + 1}
          /\ conn' = [conn EXCEPT !.t.tokens_used = @ + conn.t.usage, !.pc = "post"]
          /\ conn'.t.error = ""
          /\ used' = used
          /\ hist' = hist]_conn

C19_Witness ==
  /\ events = 0
  /\ conn.pc = "sent"
  /\ conn.sent = <<ToolUpdate, Complete>>
  /\ conn.t.said = "llm"
  /\ conn.t.tokens_used = 50
  /\ hist[Len(hist)].recorded
  /\ used[conn.org] = <<1000>>
  /\ used0[conn.org] = <<950>>


(***************************************************************************)
(* The owner of the session sends {"type": "cancel"} while process_message *)
(* is running.  The message loop awaits process_message before it calls    *)
(* receive_json again, so the message waits in the socket (queued) and     *)
(* manager.cancel runs only when the loop is back at receive_json.         *)
(***************************************************************************)
ClientCancel ==
  /\ conn.pc \notin {"idle", "sent"}
  /\ ~conn.queued
  /\ conn' = [conn EXCEPT !.queued = TRUE]
  /\ UNCHANGED <<db, nwrites, last, ledgerVars, calls, hist, mem, events>>

CancelInit ==
  /\ TurnInit
  /\ conn.role = "manager"
  /\ used[1] = <<950>>

CancelNext ==
  \/ ClientCancel
  \/ TurnNext

SpecCancel == CancelInit /\ [][CancelNext]_vars

(***************************************************************************)
(* C20: when the session is cancelled by its owner while one of its turns  *)
(* is in flight, that turn sends neither a COMPLETE nor an ERROR carrying  *)
(* the result of the handler, and the increments of the used counter       *)
(* recorded during the turn stay in the ledger.                            *)
(***************************************************************************)
C20_CancelSuppressesOutput ==
  /\ [] ((conn.queued /\ conn.pc = "sent") =>
            \A i \in 1..Len(conn.sent) :
               /\ conn.sent[i] # Complete
               /\ (conn.t.error # "" => conn.sent[i] # Error(conn.t.error)))
  /\ [] (get_quota(conn.org, used, limit).used
            = RedisInt(used0[conn.org], 0) + requested[conn.org])
  /\ [][RedisInt(used'[conn.org], 0) >= RedisInt(used[conn.org], 0)]_vars

C20_Witness ==
  /\ conn.queued
  /\ ~conn.cancelled
  /\ conn.pc = "sent"
  /\ conn.sent = <<ToolUpdate, Complete>>
  /\ conn.t.said = "llm"
  /\ hist[Len(hist)].recorded
  /\ used[conn.org] = <<1000>>


WellTyped(t, p) ==
  \A fn \in DOMAIN p :
    \/ p[fn] \in {ABSENT, NONE}
    \/ fn = "extra"
    \/ IF fn \in {"quantity", "order_id", "product_id", "warehouse_id",
                  "from_warehouse_id", "to_warehouse_id", "actual_price"}
         THEN IsInt(p[fn])
       ELSE IF fn = "items" THEN IsList(p[fn])
       ELSE IF fn = "adjustment" THEN p[fn] = PyTrue
       ELSE IsStr(p[fn])

MaxReads == 2

GetQuota ==
  /\ Len(hist) < MaxReads
  /\ hist' = Append(hist, get_quota(last.org, used, limit))
  /\ UNCHANGED <<db, nwrites, last, ledgerVars, calls, conn, mem, events>>

ReadNext ==
  \/ GetQuota
  \/ Check

SpecRead == QuotaInit /\ [][ReadNext]_vars

(***************************************************************************)
(* C22: get_quota and check_quota leave the used counter and the limit of  *)
(* every organisation as they were, so the get_quota calls made with no    *)
(* write in between return the same TokenQuota, each with                  *)
(* remaining = max(0, limit - used).                                       *)
(***************************************************************************)
C22_ReadsAreReadOnly ==
  /\ [] (\A i, j \in DOMAIN hist : hist[i] = hist[j])
  /\ [] (\A i \in DOMAIN hist :
           /\ hist[i].used = RedisInt(used[last.org], 0)
           /\ hist[i].limit = RedisInt(limit[last.org], default_org_token_limit)
           /\ hist[i].remaining = (IF hist[i].limit - hist[i].used > 0
                                     THEN hist[i].limit - hist[i].used ELSE 0))
  /\ [][used' = used /\ limit' = limit]_vars

C22_Witness ==
  /\ Len(hist) = 2
  /\ last.op = "check_quota"
  /\ last.ok
  /\ last.e = 40
  /\ hist[1] = [used |-> 950, limit |-> 1000, remaining |-> 50]
  /\ hist[2] = hist[1]


(***************************************************************************)
(* C23: a run_action call that passed the role check and the validation of *)
(* the required fields returns PENDING_CONFIRMATION or CANCELLED when      *)
(* confirmed is False, and EXECUTED or CANCELLED when confirmed is True.   *)
(***************************************************************************)
C23_StatusByPath ==
  (last.op = "run_action" /\ last.result.stage \in {"preview", "confirm"}) =>
     /\ (last.confirmedArg # "True"
           => last.result.status \in {PENDING_CONFIRMATION, CANCELLED})
     /\ (last.confirmedArg = "True"
           => last.result.status \in {EXECUTED, CANCELLED})

C23_Witness ==
  /\ last.op = "run_action"
  /\ last.tool = "update_product"
  /\ last.role = "manager"
  /\ last.confirmedArg = "False"
  /\ last.params.product_id = I(0)
  /\ last.params.sku = ABSENT
  /\ last.result.stage = "preview"
  /\ last.result.status = MISSING_DATA
  /\ last.result.missing_fields = <<"product_id">>


(***************************************************************************)
(* C24: confirm enforces the feasibility checks of preview: a run_action   *)
(* call with confirmed=True returns EXECUTED in a state of the data store  *)
(* only if the call with confirmed=False and the same params would return  *)
(* PENDING_CONFIRMATION in that state.                                     *)
(***************************************************************************)
C24_ConfirmImpliesPreview ==
  [][(/\ last'.op = "run_action"
      /\ last'.result.stage = "confirm"
      /\ last'.result.status = EXECUTED)
     => \E r \in run_action(last'.tool, last'.org, last'.role, "False",
                            last'.params, db, 0) :
          r.status = PENDING_CONFIRMATION]_vars

C24_Witness ==
  /\ last.op = "run_action"
  /\ last.tool = "update_order_status"
  /\ last.org = 1
  /\ last.confirmedArg = "True"
  /\ last.failAt = 0
  /\ last.params.order_id = I(2)
  /\ last.params.new_status = S("pending")
  /\ last.result.status = EXECUTED
  /\ db = InitDb
  /\ \A r \in run_action("update_order_status", 1, last.role, "False", last.params, db, 0) :
        r.status = CANCELLED /\ r.error = "Order not found"


(***************************************************************************)
(* C25: after any sequence of run_action calls on update_stock and         *)
(* transfer_stock every ProductStock quantity is >= 0, and a               *)
(* transfer_stock that returns EXECUTED has taken from the source          *)
(* warehouse exactly the quantity it added to the destination.             *)
(***************************************************************************)
C25_StockConserved ==
  /\ [] (\A r \in db.stock : r.quantity >= 0)
  /\ [][(/\ last'.op = "run_action"
          /\ last'.tool = "transfer_stock"
          /\ last'.result.status = EXECUTED)
         => \E product \in ProductsBySku(db, last'.org, last'.params.sku[2]) :
              LET q    == last'.params.quantity[2]
                  from == last'.params.from_warehouse_id[2]
                  to   == last'.params.to_warehouse_id[2]
              IN  /\ StockQty(db', product.pid, from) = StockQty(db, product.pid, from) - q
                  /\ StockQty(db', product.pid, to) = StockQty(db, product.pid, to) + q]_vars

C25_Witness ==
  /\ last.op = "run_action"
  /\ last.tool = "transfer_stock"
  /\ last.org = 1
  /\ last.confirmedArg = "True"
  /\ last.params.quantity = I(1)
  /\ last.params.from_warehouse_id = I(2)
  /\ last.params.to_warehouse_id = I(1)
  /\ last.result.status = EXECUTED
  /\ StockRows(db, 1, 2) = {}
  /\ StockQty(db, 1, 1) = 2


(***************************************************************************)
(* Concurrent turns of the sessions s1, s2 (organisation 1) and s3         *)
(* (organisation 2): BaseAgent.run calls check_quota with the turn's       *)
(* estimate before the handler, and record_usage follows the inference     *)
(* call of an admitted turn.                                               *)
(***************************************************************************)
Admit(c) ==
  /\ calls[c].op = "none"
  /\ \E e \in Estimates :
       calls' = [calls EXCEPT ![c] =
                   [pc |-> IF check_quota(CallerOrg(c), e, used, limit)
                             THEN "admitted" ELSE "idle",
                    op |-> "check_quota", n |-> 0, e |-> e]]
  /\ UNCHANGED <<db, nwrites, last, ledgerVars, turnVars>>

AdmitRecord(c) ==
  /\ calls[c].pc = "admitted"
  /\ \E t \in UsageTotals :
       LET new_total == incrby(used[CallerOrg(c)], used[CallerOrg(c)], t)
       IN  /\ used' = [used EXCEPT ![CallerOrg(c)] = <<new_total>>]
           /\ requested' = [requested EXCEPT ![CallerOrg(c)] = @ + t]
           /\ calls' = [calls EXCEPT ![c] = [pc |-> "idle", op |-> "record_usage", n |-> 1,
                                            total_tokens |-> t, new_total |-> new_total]]
  /\ UNCHANGED <<db, nwrites, last, limit, used0, turnVars>>

AdmitNext ==
  \E c \in Callers :
    \/ Admit(c)
    \/ AdmitRecord(c)

SpecAdmit == LedgerInit /\ [][AdmitNext]_vars

(***************************************************************************)
(* C26: two turns of one organisation are never both past check_quota,     *)
(* with their usage not yet recorded, when the remaining quota of the      *)
(* organisation is less than the sum of their buffer-adjusted estimates.   *)
(***************************************************************************)
C26_AdmittedWithinRemaining ==
  \A c1, c2 \in Callers :
    (/\ c1 # c2
     /\ CallerOrg(c1) = CallerOrg(c2)
     /\ calls[c1].pc = "admitted"
     /\ calls[c2].pc = "admitted")
    => required_tokens(calls[c1].e) + required_tokens(calls[c2].e)
         <= get_quota(CallerOrg(c1), used, limit).remaining

C26_Witness ==
  /\ used[1] = <<950>>
  /\ limit[1] = <<1000>>
  /\ requested[1] = 0
  /\ calls["s1"].pc = "admitted"
  /\ calls["s2"].pc = "admitted"
  /\ calls["s1"].e = 40
  /\ calls["s2"].e = 46


(***************************************************************************)
(* C27: every non-empty message received on an open connection gets        *)
(* exactly one COMPLETE or ERROR response, unless a cancel was received    *)
(* while its turn was in flight; so a message that follows a cancel is     *)
(* processed and answered.  (The loop receives a cancel only between       *)
(* turns, so no turn of SpecTurn is excepted.)                             *)
(***************************************************************************)
C27_EveryMessageAnswered ==
  /\ [] (conn.pc = "sent" =>
           Cardinality({i \in DOMAIN conn.sent :
                          conn.sent[i].type \in {"complete", "error"}}) = 1)
  /\ [][(conn.pc = "idle" /\ conn'.pc # "idle") => conn'.pc = "classify"]_conn

C27_Witness ==
  /\ conn.cancelled
  /\ conn.turn = 1
  /\ conn.t.msg.text = "show orders"
  /\ conn.pc = "sent"
  /\ conn.sent = <<>>
  /\ hist = <<>>


(***************************************************************************)
(* Name resolution as a function of the Product table and the name: the    *)
(* table is drawn at the start, ResolveName is one run_action call of      *)
(* create_reorder_request with the data store answering every operation.   *)
(***************************************************************************)
ProductCandidates ==
  {[pid |-> 1, org |-> 1, name |-> <<"a", "b">>, sku |-> "S1"],
   [pid |-> 2, org |-> 1, name |-> <<"A">>, sku |-> "S2"],
   [pid |-> 3, org |-> 2, name |-> <<"a", "b">>, sku |-> "S1"],
   [pid |-> 4, org |-> 1, name |-> <<"b">>, sku |-> "S4"],
   [pid |-> 5, org |-> 1, name |-> <<"c", "a", "b">>, sku |-> "S5"],
   [pid |-> 6, org |-> 2, name |-> <<"z">>, sku |-> "S6"]}

ResolveInit ==
  /\ nwrites = 0
  /\ last = NoCall
  /\ used = [o \in Orgs |-> <<>>]
  /\ limit = [o \in Orgs |-> <<>>]
  /\ used0 = used
  /\ requested = [o \in Orgs |-> 0]
  /\ calls = <<>>
  /\ conn = <<>>
  /\ hist = <<>>
  /\ mem = 0
  /\ events = 0
  /\ \E T \in SUBSET ProductCandidates : db = [InitDb EXCEPT !.product = T]

ResolveName ==
  /\ last = NoCall
  /\ \E org \in Orgs, c \in {"False", "True"},
        name \in {<<"a">>, <<"A", "B">>, <<"b">>, <<"z">>, <<"_">>, <<"a", "_">>} :
       RunAction("create_reorder_request", org, "manager", c,
                 [product_name |-> S(name), warehouse_name |-> S(<<"a">>),
                  quantity |-> I(1), extra |-> ABSENT], 0)

SpecResolve == ResolveInit /\ [][ResolveName]_vars

(***************************************************************************)
(* C28: the product that preview and confirm resolve a name to is a        *)
(* product of the caller's organisation whose name equals it (ignoring     *)
(* case) when there is one, and otherwise one whose name contains it; when *)
(* there is neither, preview returns CANCELLED with a 'not found' error    *)
(* and at most 3 suggestion names of the caller's organisation, and        *)
(* nothing is written.                                                     *)
(***************************************************************************)
C28_ExactThenFuzzy ==
  (/\ last.op = "run_action"
   /\ last.tool = "create_reorder_request"
   /\ last.result.stage \in {"preview", "confirm"}) =>
    LET name    == last.params.product_name[2]
        mine    == {r \in db.product : r.org = last.org}
        exact   == {r \in mine : LowerStr(r.name) = LowerStr(name)}
        within  == {r \in mine :
                      \E i \in 1..Len(r.name) :
                         /\ i + Len(name) - 1 <= Len(r.name)
                         /\ LowerStr(SubSeq(r.name, i, i + Len(name) - 1)) = LowerStr(name)}
        allowed == {r.pid : r \in (IF exact # {} THEN exact ELSE within)}
    IN  /\ last.result.status = PENDING_CONFIRMATION
             => last.result.preview_data[1].product_id \in allowed
        /\ last.result.status = EXECUTED
             => \E r \in db.reorder : r.rid = last.result.created_id[1] /\ r.pid \in allowed
        /\ (exact = {} /\ within = {} /\ last.result.stage = "preview")
             => /\ last.result.status = CANCELLED
                /\ last.result.error = "Product not found"
                /\ Cardinality(last.result.suggestions) <= 3
                /\ last.result.suggestions \subseteq {r.name : r \in mine}
                /\ nwrites = 0

C28_Witness ==
  /\ last.op = "run_action"
  /\ last.org = 1
  /\ last.confirmedArg = "False"
  /\ last.params.product_name = S(<<"_">>)
  /\ last.result.status = PENDING_CONFIRMATION
  /\ last.result.preview_data[1].product_id = 2
  /\ Cardinality(db.product) = 6
  /\ nwrites = 0


(***************************************************************************)
(* C29: the optional fields of every ActionResult that run_action returns  *)
(* agree with its status: missing_fields and prompt_message are set only   *)
(* with MISSING_DATA, preview_data and confirmation_message only with      *)
(* PENDING_CONFIRMATION, result_message and created_id only with EXECUTED, *)
(* and success is false, with an error text, exactly with CANCELLED.       *)
(***************************************************************************)
C29_FieldsMatchStatus ==
  last.op = "run_action" =>
    LET r == last.result
    IN  /\ r.status \in {MISSING_DATA, PENDING_CONFIRMATION, EXECUTED, CANCELLED}
        /\ (r.missing_fields # <<>> \/ r.prompt_message) => r.status = MISSING_DATA
        /\ (r.preview_data # <<>> \/ r.confirmation_message)
              => r.status = PENDING_CONFIRMATION
        /\ (r.result_message \/ r.created_id # <<>>) => r.status = EXECUTED
        /\ ~r.success <=> r.status = CANCELLED
        /\ r.error # "None" <=> r.status = CANCELLED

C29_Witness ==
  /\ last.op = "run_action"
  /\ last.tool = "create_order"
  /\ last.result.status = EXECUTED
  /\ last.result.created_id = <<3>>
  /\ last.result.result_message
  /\ last.result.success
  /\ last.result.error = "None"
  /\ last.result.preview_data = <<>>
  /\ ~last.result.confirmation_message
  /\ last.result.missing_fields = <<>>


(***************************************************************************)
(* detect_action_intent (agents/action_handler.py).  A message is a        *)
(* sequence of characters; the patterns are matched with re.search on the  *)
(* lower-cased, stripped message.                                          *)
(***************************************************************************)
RECURSIVE Strip(_)
Strip(m) ==
  IF m = <<>> THEN m
  ELSE IF Head(m) = " " THEN Strip(Tail(m))
  ELSE IF m[Len(m)] = " " THEN Strip(SubSeq(m, 1, Len(m) - 1))
  ELSE m

StartsWith(m, w) == Len(m) >= Len(w) /\ SubSeq(m, 1, Len(w)) = w

CONFIRMATION_PATTERNS(m) ==
  \/ m = <<"y", "e", "s">>
  \/ (StartsWith(m, <<"y", "e", "s">>) /\ Len(m) > 3 /\ m[4] \in {",", "!", "."})
  \/ StartsWith(m, <<"y", "e", "a", "h">>)
  \/ StartsWith(m, <<"y", "e", "p">>)
  \/ StartsWith(m, <<"s", "u", "r", "e">>)
  \/ StartsWith(m, <<"c", "o", "n", "f", "i", "r", "m">>)
  \/ StartsWith(m, <<"d", "o", " ", "i", "t">>)
  \/ StartsWith(m, <<"p", "r", "o", "c", "e", "e", "d">>)
  \/ StartsWith(m, <<"g", "o", " ", "a", "h", "e", "a", "d">>)
  \/ m = <<"o", "k">>
  \/ StartsWith(m, <<"o", "k", "a", "y">>)

CANCELLATION_PATTERNS(m) ==
  \/ m = <<"n", "o">>
  \/ (StartsWith(m, <<"n", "o">>) /\ Len(m) > 2 /\ m[3] \in {",", "!", "."})
  \/ StartsWith(m, <<"n", "o", "p", "e">>)
  \/ StartsWith(m, <<"c", "a", "n", "c", "e", "l">>)
  \/ StartsWith(m, <<"d", "o", "n", "'", "t">>)
  \/ StartsWith(m, <<"s", "t", "o", "p">>)
  \/ \E k \in 5..Len(m) :
        /\ k + 4 <= Len(m)
        /\ StartsWith(m, <<"n", "e", "v", "e", "r">>)
        /\ \A i \in 6..k : m[i] = " "
        /\ SubSeq(m, k + 1, k + 4) = <<"m", "i", "n", "d">>

(* re.search of word1\s+word2 anywhere in the message *)
SearchWords(m, w1, w2) ==
  \E i \in 1..Len(m), j \in 1..Len(m) :
     /\ i + Len(w1) - 1 <= Len(m)
     /\ j + Len(w2) <= Len(m)
     /\ SubSeq(m, i, i + Len(w1) - 1) = w1
     /\ j >= i + Len(w1)
     /\ \A k \in (i + Len(w1))..j : m[k] = " "
     /\ SubSeq(m, j + 1, j + Len(w2)) = w2

(* the patterns of ACTION_PATTERNS that the messages of the model can      *)
(* match, in the order of the dict                                         *)
ACTION_PATTERNS(m) ==
  IF SearchWords(m, <<"s", "h", "i", "p">>, <<"o", "r", "d", "e", "r">>) THEN <<"update_order_status">>
  ELSE IF SearchWords(m, <<"c", "a", "n", "c", "e", "l">>, <<"o", "r", "d", "e", "r">>) THEN <<"cancel_order">>
  ELSE <<>>

NoIntent == <<>>

detect_action_intent_AnyYes(user_message, pending_action) ==
  LET message_lower == Strip(LowerStr(user_message))
  IN  IF CONFIRMATION_PATTERNS(message_lower)
        THEN <<[action_type |-> pending_action, is_confirmation |-> TRUE,
                is_cancellation |-> FALSE]>>
      ELSE IF pending_action \notin {"None", ""} /\ CANCELLATION_PATTERNS(message_lower)
        THEN <<[action_type |-> pending_action, is_confirmation |-> FALSE,
                is_cancellation |-> TRUE]>>
      ELSE NoIntent

detect_action_intent(user_message, pending_action) ==
  LET message_lower == Strip(LowerStr(user_message))
  IN  IF pending_action \notin {"None", ""} /\ CONFIRMATION_PATTERNS(message_lower)
        THEN <<[action_type |-> pending_action, is_confirmation |-> TRUE,
                is_cancellation |-> FALSE]>>
      ELSE IF pending_action \notin {"None", ""} /\ CANCELLATION_PATTERNS(message_lower)
        THEN <<[action_type |-> pending_action, is_confirmation |-> FALSE,
                is_cancellation |-> TRUE]>>
      ELSE IF ACTION_PATTERNS(message_lower) # <<>>
        THEN <<[action_type |-> ACTION_PATTERNS(message_lower)[1],
                is_confirmation |-> FALSE, is_cancellation |-> FALSE]>>
      ELSE NoIntent

UserMessages ==
  {<<"y", "e", "s">>,
   <<"Y", "e", "s">>,
   <<" ", "y", "e", "s", " ">>,
   <<"y", "e", "s", "!">>,
   <<"y", "e", "s", " ", "p", "l", "e", "a", "s", "e">>,
   <<"y", "e", "s", "t", "e", "r", "d", "a", "y">>,
   <<"y">>,
   <<"y", "e", "a", "h", " ", "s", "u", "r", "e">>,
   <<"o", "k">>,
   <<"o", "k", "a", "y">>,
   <<"o", "k", " ", "t", "h", "e", "n">>,
   <<"o", "h", " ", "y", "e", "s">>,
   <<"s", "u", "r", "e", ",", " ", "c", "a", "n", "c", "e", "l", " ", "i", "t">>,
   <<"d", "o", " ", "i", "t">>,
   <<"n", "o">>,
   <<"n", "o", ".">>,
   <<"n", "o", "p", "e">>,
   <<"n", "o", "t", " ", "y", "e", "t">>,
   <<"c", "a", "n", "c", "e", "l">>,
   <<"c", "a", "n", "c", "e", "l", " ", "o", "r", "d", "e", "r", " ", "1">>,
   <<"d", "o", "n", "'", "t">>,
   <<"s", "h", "i", "p", " ", "o", "r", "d", "e", "r", " ", "1">>,
   <<"s", "h", "i", "p", " ", " ", "o", "r", "d", "e", "r">>,
   <<"y", "e", "s", " ", "s", "h", "i", "p", " ", "o", "r", "d", "e", "r">>,
   <<>>}

PendingActions == {"None", "", "create_order", "update_stock"}

DetectInit ==
  /\ db = InitDb
  /\ nwrites = 0
  /\ used = [o \in Orgs |-> <<>>]
  /\ limit = [o \in Orgs |-> <<>>]
  /\ used0 = used
  /\ requested = [o \in Orgs |-> 0]
  /\ calls = <<>>
  /\ conn = <<>>
  /\ hist = <<>>
  /\ mem = 0
  /\ events = 0
  /\ last \in [op : {"message"}, user_message : UserMessages, pending_action : PendingActions]

Detect ==
  /\ last.op = "message"
  /\ last' = [op |-> "detect_action_intent", user_message |-> last.user_message,
              pending_action |-> last.pending_action,
              intent |-> detect_action_intent(last.user_message, last.pending_action)]
  /\ UNCHANGED <<db, nwrites, ledgerVars, calls, turnVars>>

SpecDetect == DetectInit /\ [][Detect]_vars


(***************************************************************************)
(* C30: detect_action_intent returns is_confirmation=True only when a      *)
(* pending action was supplied and the message matches a confirmation      *)
(* pattern; the action_type is then the pending action; is_confirmation    *)
(* and is_cancellation are never both true; and with no pending action an  *)
(* affirmative message such as 'yes' yields no confirmation.               *)
(***************************************************************************)
C30_NoImplicitConfirmation ==
  last.op = "detect_action_intent" =>
    /\ \A i \in DOMAIN last.intent :
         /\ ~(last.intent[i].is_confirmation /\ last.intent[i].is_cancellation)
         /\ last.intent[i].is_confirmation =>
              /\ last.pending_action \notin {"None", ""}
              /\ last.intent[i].action_type = last.pending_action
              /\ CONFIRMATION_PATTERNS(Strip(LowerStr(last.user_message)))
    /\ (last.pending_action \in {"None", ""} /\ last.user_message = <<"y", "e", "s">>)
         => last.intent = NoIntent

C30_Witness ==
  /\ last.op = "detect_action_intent"
  /\ last.user_message = <<"Y", "e", "s">>
  /\ last.pending_action = "create_order"
  /\ last.intent = <<[action_type |-> "create_order", is_confirmation |-> TRUE,
                      is_cancellation |-> FALSE]>>

====
